---- MODULE Spec2Model ----
(***************************************************************************)
(* pspace: command-line client for remote Paperspace jobs.                 *)
(*                                                                         *)
(* The module models                                                       *)
(*   - the argument parser's defaults (cli.py process_command_line),       *)
(*   - the layered configuration resolver (pspace.py get_cmd_config),      *)
(*   - the command handlers of cli.py (create, tail, status, jobs, stop,   *)
(*     getart, newyaml) with the log-stream controller of pspace.py        *)
(*     (print_last_log_lines, follow_job_state, follow_log, get_log_lines),*)
(*   - the persisted RunState (save_last_info / get_last_info),            *)
(*   - the remote job service and the wall clock as the environment.       *)
(*                                                                         *)
(* Python values are tagged tuples so that values of different Python      *)
(* types can be compared: None, Str(s), Num(i), Bool(b), Dict(f).          *)
(***************************************************************************)
EXTENDS Integers, Sequences, FiniteSets, TLC

VARIABLES
    yaml_file,        \* the project config file pspace.yaml of the working context
    last_info,        \* the RunState file .pspace/last_cmd_info.yaml
    jobs,             \* remote service: job id -> job (state, log, finish time)
    page_cap,         \* remote service: most lines one logs() request returns
    now,              \* wall clock
    pc,               \* control point of the running invocation
    cmd,              \* args.pspace_cmd of the invocation
    argv,             \* the command line: option -> value, for the options given
    args,             \* vars(args) left after pspace_cmd is popped
    cmd_config,       \* result of get_cmd_config
    job_info,         \* job_info local of the controller / command
    line_start,       \* line_start local of print_last_log_lines / follow_log
    fetch,            \* result of the latest get_log_lines call
    last_log_line,    \* last_log_line local of the controller
    total_log_lines,  \* total_log_lines local of print_last_log_lines
    out,              \* what the invocation has printed so far
    obs               \* observation of the invocation: calls made, files written

vars == <<yaml_file, last_info, jobs, page_cap, now, pc, cmd, argv, args,
          cmd_config,
          job_info, line_start, fetch, last_log_line, total_log_lines, out, obs>>

envVars == <<yaml_file, last_info, jobs, page_cap, now>>
locVars == <<job_info, line_start, fetch, last_log_line, total_log_lines>>

----------------------------------------------------------------------------
(* Python values *)

None == <<"None">>
Str(s) == <<"str", s>>
Num(i) == <<"int", i>>
Bool(b) == <<"bool", b>>
Dict(f) == <<"dict", f>>
List(s) == <<"list", s>>

IsDict(v) == v[1] = "dict"
IsStr(v) == v[1] = "str"
IsNum(v) == v[1] = "int"
Keys(d) == DOMAIN d[2]
Has(d, k) == IsDict(d) /\ k \in Keys(d)
Get(d, k) == d[2][k]
EmptyDict == Dict(<<>>)

\* bool(v) of Python for the values of the model
Truthy(v) ==
    CASE v[1] = "None" -> FALSE
      [] v[1] = "str" -> v[2] # ""
      [] v[1] = "int" -> v[2] # 0
      [] v[1] = "bool" -> v[2]
      [] v[1] = "list" -> v[2] # <<>>
      [] OTHER -> Keys(v) # {}

Min(a, b) == IF a < b THEN a ELSE b
Max(a, b) == IF a > b THEN a ELSE b

\* a file of the working context
NoFile == <<"nofile">>
File(content) == <<"file", content>>
Exists(f) == f[1] = "file"
Content(f) == f[2]

----------------------------------------------------------------------------
(* cli.py: the argument parser *)

Commands == {"create", "tail", "jobs", "status", "getart", "stop", "newyaml"}

\* the options add_argument declares for each sub-command
Options(c) ==
    CASE c = "create" -> {"machineType", "project", "ignoreFiles", "container", "commands"}
      [] c = "tail" -> {"job_id", "follow", "last"}
      [] c = "jobs" -> {"project", "state", "last", "utc"}
      [] c = "status" -> {"job_id", "utc"}
      [] c = "getart" -> {"job_id", "destdir"}
      [] c = "stop" -> {"job_id"}
      [] OTHER -> {}

\* the options declared with action='store_true'
StoreTrue(c) ==
    CASE c = "tail" -> {"follow"}
      [] c = "jobs" -> {"utc"}
      [] c = "status" -> {"utc"}
      [] OTHER -> {}

\* argparse: given is the command line, a map from the options that appear on
\* it to the value parsed for each. An option that does not appear is None,
\* except that a store_true option is False.
process_command_line(c, given) ==
    [k \in Options(c) |->
        IF k \in StoreTrue(c)
        THEN Bool(k \in DOMAIN given)
        ELSE IF k \in DOMAIN given THEN given[k] ELSE None]

----------------------------------------------------------------------------
(* pspace.py: configuration *)

\* CMD_ARG_DEFAULTS, first item of each list (the command default)
CMD_ARG_DEFAULTS ==
    [create |-> [commands |-> None,
                 container |-> Str("tensorflow/tensorflow-python:latest"),
                 machineType |-> Str("K80"),
                 ignoreFiles |-> None],
     tail |-> [follow |-> Bool(FALSE), last |-> Str("all")],
     getart |-> [destdir |-> Str("data")],
     jobs |-> [last |-> None, utc |-> Bool(FALSE)],
     status |-> [utc |-> Bool(FALSE)]]

\* CMD_ARG_DEFAULTS, second item of each list (what newyaml writes)
NEWYAML_DEFAULTS ==
    Dict([create |-> Dict([commands |-> List(<<"echo hello world">>),
                           container |-> Str("tensorflow/tensorflow-python:latest"),
                           machineType |-> Str("K80"),
                           ignoreFiles |-> List(<<"ignore1", "ignore2">>)]),
          tail |-> Dict([follow |-> Bool(FALSE), last |-> Num(20)]),
          getart |-> Dict([destdir |-> Str("data")]),
          jobs |-> Dict([last |-> None, utc |-> Bool(FALSE)]),
          status |-> Dict([utc |-> Bool(FALSE)])])

\* CMD_ARG_DEFAULTS.get(cmd, {}).get(argkey, [None])[0]
DefaultOf(c, argkey) ==
    IF c \in DOMAIN CMD_ARG_DEFAULTS /\ argkey \in DOMAIN CMD_ARG_DEFAULTS[c]
    THEN CMD_ARG_DEFAULTS[c][argkey]
    ELSE None

\* get_yaml_cwd: the parsed content of the first pspace.yaml found, None when
\* there is none (an empty file parses to None as well)
get_yaml_cwd(yf) == IF Exists(yf) THEN Content(yf) ELSE None

\* get_yaml_config: the sub-command's section, {} without file or section
get_yaml_config(yf, subcommand) ==
    LET yaml_config == get_yaml_cwd(yf)
    IN IF yaml_config # None /\ Has(yaml_config, subcommand)
       THEN Get(yaml_config, subcommand)
       ELSE EmptyDict

\* get_last_info: the RunState, {} when the file cannot be read
get_last_info(li) == IF Exists(li) THEN Content(li) ELSE EmptyDict

\* args_to_pspacelast of get_cmd_config
args_to_pspacelast ==
    [job_id |-> <<"job_info", "id">>,
     total_log_lines |-> <<"pspace_info", "total_log_lines">>,
     last_job_id |-> <<"pspace_info", "last_job_id">>]

\* pspace_last[psection][pkey] does not raise KeyError
LastHas(pspace_last, argkey) ==
    /\ argkey \in DOMAIN args_to_pspacelast
    /\ Has(pspace_last, args_to_pspacelast[argkey][1])
    /\ Has(Get(pspace_last, args_to_pspacelast[argkey][1]), args_to_pspacelast[argkey][2])

LastValue(pspace_last, argkey) ==
    Get(Get(pspace_last, args_to_pspacelast[argkey][1]), args_to_pspacelast[argkey][2])

\* get_cmd_config with the command-argument layer taken when the value is truthy
get_cmd_config_truthy(c, args_dict, extra_keys, yf, li) ==
    LET yaml_config == get_yaml_config(yf, c)
        pspace_last == get_last_info(li)
    IN [argkey \in (DOMAIN args_dict) \cup extra_keys |->
          LET v0 == DefaultOf(c, argkey)
              v1 == IF LastHas(pspace_last, argkey) THEN LastValue(pspace_last, argkey) ELSE v0
              v2 == IF argkey \in Keys(yaml_config) THEN Get(yaml_config, argkey) ELSE v1
          IN IF argkey \in DOMAIN args_dict /\ Truthy(args_dict[argkey])
             THEN args_dict[argkey] ELSE v2]

\* get_cmd_config, lines 185-205: per key, the default, then the RunState field
\* the key is mapped to, then the project config file, then the command
\* argument when it is not None
get_cmd_config(c, args_dict, extra_keys, yf, li) ==
    LET yaml_config == get_yaml_config(yf, c)
        pspace_last == get_last_info(li)
    IN [argkey \in (DOMAIN args_dict) \cup extra_keys |->
          LET v0 == DefaultOf(c, argkey)
              v1 == IF LastHas(pspace_last, argkey) THEN LastValue(pspace_last, argkey) ELSE v0
              v2 == IF argkey \in Keys(yaml_config) THEN Get(yaml_config, argkey) ELSE v1
          IN IF argkey \in DOMAIN args_dict /\ args_dict[argkey] # None
             THEN args_dict[argkey] ELSE v2]

\* the extra_keys each command handler passes to get_cmd_config
ExtraKeys(c) == IF c = "tail" THEN {"total_log_lines", "last_job_id"} ELSE {}

----------------------------------------------------------------------------
(* The remote job service (paperspace.jobs) as the handlers call it *)

JobIds == {"j1", "j2"}
MaxLog == 2
MaxTime == 10
SLEEP_SECS == 5
DEADMAN_SECS == 20
PSEOF == "PSEOF"

\* job states of the remote service (pspace.py, the comment on job_info['state'])
NotStartedStates == {"Pending", "Provisioned"}
DoneStates == {"Stopped", "Cancelled", "Failed", "Error"}
JobStates == NotStartedStates \cup {"Running"} \cup DoneStates

\* text of the i-th ordinary log line of a job
LineTexts == <<"l1", "l2", "l3", "l4", "l5", "l6", "l7", "l8">>

\* a job of the remote service; jobs[j] = None when the service has no job j
Job(st, lg, fin) == <<"job", [state |-> st, log |-> lg, dtFinished |-> fin]>>
IsJob(x) == x[1] = "job"
JobState(x) == x[2].state
JobLog(x) == x[2].log
JobFinished(x) == x[2].dtFinished

\* an error record of the remote service
ErrorRecord(status, message) ==
    Dict([x \in {"error"} |-> Dict([status |-> Num(status), message |-> Str(message)])])

\* paperspace.jobs.show({'jobId': job_id}): the job's record, or an error record
show(js, job_id) ==
    IF IsStr(job_id) /\ job_id[2] \in DOMAIN js /\ IsJob(js[job_id[2]])
    THEN Dict([id |-> job_id,
               state |-> Str(JobState(js[job_id[2]])),
               dtFinished |-> JobFinished(js[job_id[2]])])
    ELSE ErrorRecord(404, "Not found")

\* the log of job job_id as the service holds it (empty when there is no job)
RemoteLog(js, job_id) ==
    IF IsStr(job_id) /\ job_id[2] \in DOMAIN js /\ IsJob(js[job_id[2]])
    THEN JobLog(js[job_id[2]])
    ELSE <<>>

\* paperspace.jobs.logs({'jobId': .., 'line': line}): at most cap entries of
\* the log, from line number `line` on
logs(log, cap, line) ==
    IF line >= Len(log) THEN <<>>
    ELSE [i \in 1..Min(cap, Len(log) - line) |->
            [line |-> line + i - 1, message |-> log[line + i]]]

----------------------------------------------------------------------------
(* pspace.py: job status helpers *)

\* 'error' in job_info
IsError(ji) == Has(ji, "error")

\* job_done that does not take Error as done
job_done_without_error(ji) == Get(ji, "state")[2] \in {"Stopped", "Cancelled", "Failed"}

\* job_not_started that takes only Pending as not started
job_not_started_pending_only(ji) == Get(ji, "state")[2] \in {"Pending"}

job_not_started(ji) == Get(ji, "state")[2] \in {"Pending", "Provisioned"}
job_started(ji) == ~job_not_started(ji)
job_done(ji) == Get(ji, "state")[2] \in {"Stopped", "Cancelled", "Failed", "Error"}

\* seconds_since_done: now minus the parsed dtFinished
seconds_since_done(ji, t) == t - Get(ji, "dtFinished")[2]

\* the Python slice seq[:n] in the place of seq[-n:]
LastSlice_first_n(seq, n) ==
    IF n = 0 THEN seq ELSE SubSeq(seq, 1, Min(n, Len(seq)))

\* the Python slice seq[-n:]
LastSlice(seq, n) ==
    IF n = 0 THEN seq
    ELSE IF n > 0 THEN SubSeq(seq, Max(Len(seq) - n, 0) + 1, Len(seq))
    ELSE SubSeq(seq, Min(-n, Len(seq)) + 1, Len(seq))

----------------------------------------------------------------------------
(* pspace.py: get_log_lines *)

RECURSIVE get_log_lines_loop(_, _, _, _, _)
\* the while loop of get_log_lines: request a page at line_start, extend
\* log_output, advance line_start by the page's length, stop after an empty
\* page. reqs and pages record the offsets requested and the page lengths.
get_log_lines_loop(log, cap, ls, log_output, tr) ==
    LET new_log_output == logs(log, cap, ls)
        tr2 == [reqs |-> Append(tr.reqs, ls),
                pages |-> Append(tr.pages, Len(new_log_output))]
    IN IF Len(new_log_output) = 0
       THEN [msgs |-> [i \in 1..Len(log_output) |-> log_output[i].message],
             reqs |-> tr2.reqs, pages |-> tr2.pages]
       ELSE get_log_lines_loop(log, cap, ls + Len(new_log_output),
                               log_output \o new_log_output, tr2)

\* get_log_lines that stops after its first page
get_log_lines_one_page(log, cap, ls) ==
    LET new_log_output == logs(log, cap, ls)
    IN [msgs |-> [i \in 1..Len(new_log_output) |-> new_log_output[i].message],
        reqs |-> <<ls>>, pages |-> <<Len(new_log_output)>>]

get_log_lines(log, cap, ls) ==
    get_log_lines_loop(log, cap, ls, <<>>, [reqs |-> <<>>, pages |-> <<>>])

NoFetch == [msgs |-> <<>>, reqs |-> <<>>, pages |-> <<>>]

----------------------------------------------------------------------------
(* pspace.py: the RunState *)

\* save_last_info that writes whether or not a project config file exists
save_last_info_always(yf, li, ji, extra_info, t) ==
    File(Dict([job_info |->
                  Dict([x \in {k \in Keys(ji) : Get(ji, k) # None} |-> Get(ji, x)]),
               pspace_info |->
                  Dict([x \in {"info_updated"} \cup DOMAIN extra_info |->
                          IF x \in DOMAIN extra_info THEN extra_info[x]
                          ELSE Str("updated")])]))

\* save_last_info that keeps the None fields of job_info
save_last_info_keeping_none(yf, li, ji, extra_info, t) ==
    IF get_yaml_cwd(yf) = None THEN li
    ELSE File(Dict([job_info |-> ji,
                    pspace_info |->
                        Dict([x \in {"info_updated"} \cup DOMAIN extra_info |->
                                IF x \in DOMAIN extra_info THEN extra_info[x]
                                ELSE Str("updated")])]))

\* save_last_info: nothing without a project config file; else the file holds
\* job_info without its None fields and pspace_info = info_updated + extra_info
save_last_info(yf, li, ji, extra_info, t) ==
    IF get_yaml_cwd(yf) = None THEN li
    ELSE File(Dict([job_info |->
                        Dict([x \in {k \in Keys(ji) : Get(ji, k) # None} |-> Get(ji, x)]),
                    pspace_info |->
                        Dict([x \in {"info_updated"} \cup DOMAIN extra_info |->
                                IF x \in DOMAIN extra_info THEN extra_info[x]
                                ELSE Str("updated")])]))

----------------------------------------------------------------------------
(* cli.py: the command handlers. An invocation starts with Invoke...; create, *)
(* status, jobs, stop, getart and newyaml make at most one remote call that   *)
(* changes what they do next and are one step each; tail is one step per      *)
(* remote call or sleep of the controller.                                    *)

\* what an invocation has done so far: show() calls, get_log_lines calls,
\* sleeps, RunState writes, other remote calls, the line offset of the first
\* logs() request (-1 before it), and how follow_log ended ("sentinel",
\* "timeout", or "no" while it has not)
Obs0 == [shows |-> 0, fetches |-> 0, sleeps |-> 0, saves |-> 0,
         others |-> 0, first_offset |-> -1, ended |-> "no"]

Idle == pc = "idle"
Ended == pc \in {"done", "crashed"}

\* int(s) of Python for the numerals the model uses
IntOfStr == [x \in {"0", "1", "2", "3"} |->
               CASE x = "0" -> 0 [] x = "1" -> 1 [] x = "2" -> 2 [] x = "3" -> 3]

\* s.startswith('a') or s.startswith('A') for the strings the model uses
StartsWithA(s) == s \in {"a", "A", "all", "All", "ALL"}

\* command_tail: cmd_config['last'] can be turned into tail_lines
LastIsInt(last) ==
    \/ IsNum(last)
    \/ IsStr(last) /\ (StartsWithA(last[2]) \/ last[2] \in DOMAIN IntOfStr)

\* command_tail: tail_lines = int(cmd_config['last']), 0 for "all"
TailLinesOf(last) ==
    IF IsNum(last) THEN last[2]
    ELSE IF StartsWithA(last[2]) THEN 0
    ELSE IntOfStr[last[2]]

\* command_tail that resumes at the persisted count, not the tail count before it
LineStartOf_from_total(cc, tl) ==
    IF tl # 0 /\ cc["total_log_lines"] # None /\ cc["last_job_id"] = cc["job_id"]
    THEN cc["total_log_lines"][2]
    ELSE 0

\* command_tail with the resume offset taken whatever job the RunState is about
LineStartOf_any_job(cc, tl) ==
    IF tl # 0 /\ cc["total_log_lines"] # None
    THEN Max(0, cc["total_log_lines"][2] - tl)
    ELSE 0

\* command_tail: line_start
LineStartOf(cc, tl) ==
    IF tl # 0 /\ cc["total_log_lines"] # None /\ cc["last_job_id"] = cc["job_id"]
    THEN Max(0, cc["total_log_lines"][2] - tl)
    ELSE 0

\* locals of the running invocation
tail_lines == TailLinesOf(cmd_config["last"])
job_id == cmd_config["job_id"]
follow == Truthy(cmd_config["follow"])

\* print_error(job_info)
ErrorLine(ji) == <<"ERROR", Get(Get(ji, "error"), "status"), Get(Get(ji, "error"), "message")>>

\* print(line) for each line of a sequence of log lines
LogOut(lines) == [i \in 1..Len(lines) |-> <<"log", lines[i]>>]

\* command_tail, lines 236-240: the RunState written at the end of a tail
TailSave(ji, total) ==
    save_last_info(yaml_file, last_info, ji,
                   [total_log_lines |-> Num(total), last_job_id |-> job_id], now)

Start(c, given) ==
    /\ Idle
    /\ cmd' = c
    /\ argv' = given
    /\ args' = process_command_line(c, given)
    /\ cmd_config' = get_cmd_config(c, process_command_line(c, given), ExtraKeys(c),
                                    yaml_file, last_info)

ResetLocals ==
    /\ job_info' = None
    /\ line_start' = 0
    /\ fetch' = NoFetch
    /\ last_log_line' = ""
    /\ total_log_lines' = None

\* command_newyaml
InvokeNewyaml ==
    /\ Start("newyaml", <<>>)
    /\ ResetLocals
    /\ yaml_file' = File(NEWYAML_DEFAULTS)
    /\ out' = <<>>
    /\ obs' = Obs0
    /\ pc' = "done"
    /\ UNCHANGED <<last_info, jobs, page_cap, now>>

\* command_status that saves the RunState before it looks for an error
InvokeStatus_saving_error(given) ==
    /\ Start("status", given)
    /\ LET jid == cmd_config'["job_id"]
           ji == show(jobs, jid)
       IN IF jid = None
          THEN /\ out' = <<<<"text", "Cannot determine job id.">>>>
               /\ obs' = Obs0
               /\ job_info' = None
               /\ last_info' = last_info
          ELSE /\ out' = IF IsError(ji) THEN <<ErrorLine(ji)>>
                         ELSE <<<<"status", Get(ji, "id"), Get(ji, "state")>>>>
               /\ obs' = [Obs0 EXCEPT !.shows = 1,
                                      !.saves = IF get_yaml_cwd(yaml_file) = None THEN 0 ELSE 1]
               /\ job_info' = ji
               /\ last_info' = save_last_info(yaml_file, last_info, ji, <<>>, now)
    /\ pc' = "done"
    /\ line_start' = 0 /\ fetch' = NoFetch /\ last_log_line' = "" /\ total_log_lines' = None
    /\ UNCHANGED <<yaml_file, jobs, page_cap, now>>

\* command_status
InvokeStatus(given) ==
    /\ Start("status", given)
    /\ LET jid == cmd_config'["job_id"]
           ji == show(jobs, jid)
       IN IF jid = None
          THEN /\ out' = <<<<"text", "Cannot determine job id.">>>>
               /\ obs' = Obs0
               /\ job_info' = None
               /\ last_info' = last_info
          ELSE IF IsError(ji)
          THEN /\ out' = <<ErrorLine(ji)>>
               /\ obs' = [Obs0 EXCEPT !.shows = 1]
               /\ job_info' = ji
               /\ last_info' = last_info
          ELSE /\ out' = <<<<"status", Get(ji, "id"), Get(ji, "state")>>>>
               /\ obs' = [Obs0 EXCEPT !.shows = 1,
                                      !.saves = IF get_yaml_cwd(yaml_file) = None THEN 0 ELSE 1]
               /\ job_info' = ji
               /\ last_info' = save_last_info(yaml_file, last_info, ji, <<>>, now)
    /\ pc' = "done"
    /\ line_start' = 0 /\ fetch' = NoFetch /\ last_log_line' = "" /\ total_log_lines' = None
    /\ UNCHANGED <<yaml_file, jobs, page_cap, now>>

\* command_create. print_create_options joins cmd_config['commands'] and
\* raises TypeError when it is None; jobs_create then calls the service, which
\* creates the job or answers with an error record.
InvokeCreate(given, accepted) ==
    /\ Start("create", given)
    /\ line_start' = 0 /\ fetch' = NoFetch /\ last_log_line' = "" /\ total_log_lines' = None
    /\ IF cmd_config'["commands"] = None
       THEN /\ pc' = "crashed"
            /\ out' = <<<<"text", "Submitting with options:">>>>
            /\ obs' = Obs0
            /\ job_info' = None
            /\ UNCHANGED <<last_info, jobs>>
       ELSE IF accepted /\ jobs["j1"] = None
       THEN /\ jobs' = [jobs EXCEPT !["j1"] = Job("Pending", <<>>, None)]
            /\ job_info' = show(jobs', Str("j1"))
            /\ out' = <<<<"text", "Submitting with options:">>, <<"created", Str("j1")>>>>
            /\ obs' = [Obs0 EXCEPT !.others = 1,
                                   !.saves = IF get_yaml_cwd(yaml_file) = None THEN 0 ELSE 1]
            /\ last_info' = save_last_info(yaml_file, last_info, job_info', <<>>, now)
            /\ pc' = "done"
       ELSE /\ job_info' = ErrorRecord(400, "Bad request")
            /\ out' = <<<<"text", "Submitting with options:">>, ErrorLine(job_info')>>
            /\ obs' = [Obs0 EXCEPT !.others = 1]
            /\ pc' = "done"
            /\ UNCHANGED <<last_info, jobs>>
    /\ UNCHANGED <<yaml_file, page_cap, now>>

\* command_stop that saves the RunState after a successful stop
InvokeStop_saving(given) ==
    /\ Start("stop", given)
    /\ ResetLocals
    /\ LET jid == cmd_config'["job_id"]
       IN IF jid = None
          THEN /\ pc' = "crashed" /\ out' = <<>> /\ obs' = Obs0 /\ jobs' = jobs
               /\ last_info' = last_info
          ELSE IF ~IsError(show(jobs, jid)) /\ ~job_done(show(jobs, jid))
          THEN /\ jobs' = [jobs EXCEPT ![jid[2]] =
                              Job("Cancelled", JobLog(jobs[jid[2]]), Num(now))]
               /\ out' = <<<<"stopping", jid>>, <<"text", "Success">>>>
               /\ obs' = [Obs0 EXCEPT !.others = 1,
                                      !.saves = IF get_yaml_cwd(yaml_file) = None THEN 0 ELSE 1]
               /\ last_info' = save_last_info(yaml_file, last_info, show(jobs', jid), <<>>, now)
               /\ pc' = "done"
          ELSE /\ jobs' = jobs
               /\ out' = <<<<"stopping", jid>>, ErrorLine(ErrorRecord(400, "Bad request"))>>
               /\ obs' = [Obs0 EXCEPT !.others = 1]
               /\ last_info' = last_info
               /\ pc' = "done"
    /\ UNCHANGED <<yaml_file, page_cap, now>>

\* command_stop: the service cancels a job that is not done, else answers with
\* an error record
InvokeStop(given) ==
    /\ Start("stop", given)
    /\ ResetLocals
    /\ LET jid == cmd_config'["job_id"]
       IN IF jid = None
          THEN /\ pc' = "crashed" /\ out' = <<>> /\ obs' = Obs0 /\ jobs' = jobs
          ELSE IF ~IsError(show(jobs, jid)) /\ ~job_done(show(jobs, jid))
          THEN /\ jobs' = [jobs EXCEPT ![jid[2]] =
                              Job("Cancelled", JobLog(jobs[jid[2]]), Num(now))]
               /\ out' = <<<<"stopping", jid>>, <<"text", "Success">>>>
               /\ obs' = [Obs0 EXCEPT !.others = 1]
               /\ pc' = "done"
          ELSE /\ jobs' = jobs
               /\ out' = <<<<"stopping", jid>>, ErrorLine(ErrorRecord(400, "Bad request"))>>
               /\ obs' = [Obs0 EXCEPT !.others = 1]
               /\ pc' = "done"
    /\ UNCHANGED <<yaml_file, last_info, page_cap, now>>

\* command_getart: get_artifacts, then save_log, which fetches the whole log
InvokeGetart(given) ==
    /\ Start("getart", given)
    /\ job_info' = None /\ line_start' = 0 /\ last_log_line' = "" /\ total_log_lines' = None
    /\ LET jid == cmd_config'["job_id"]
       IN IF jid = None
          THEN /\ pc' = "crashed" /\ out' = <<>> /\ obs' = Obs0 /\ fetch' = NoFetch
          ELSE /\ fetch' = get_log_lines(RemoteLog(jobs, jid), page_cap, 0)
               /\ out' = <<<<"retrieving", jid>>>>
               /\ obs' = [Obs0 EXCEPT !.others = 1, !.fetches = 1, !.first_offset = 0]
               /\ pc' = "done"
    /\ UNCHANGED <<yaml_file, last_info, jobs, page_cap, now>>

----------------------------------------------------------------------------
(* cli.py: command_jobs. The state filter is a string whose characters matter, *)
(* so it is a sequence of one-character strings.                               *)

LowerChars == <<"a", "b", "c", "d", "e", "f", "g", "h", "i", "j", "k", "l", "m",
                "n", "o", "p", "q", "r", "s", "t", "u", "v", "w", "x", "y", "z">>
UpperChars == <<"A", "B", "C", "D", "E", "F", "G", "H", "I", "J", "K", "L", "M",
                "N", "O", "P", "Q", "R", "S", "T", "U", "V", "W", "X", "Y", "Z">>

\* ch.upper() and ch.lower() for a one-character string
upper(ch) ==
    IF \E i \in 1..Len(LowerChars) : LowerChars[i] = ch
    THEN UpperChars[CHOOSE i \in 1..Len(LowerChars) : LowerChars[i] = ch]
    ELSE ch
lower(ch) ==
    IF \E i \in 1..Len(UpperChars) : UpperChars[i] = ch
    THEN LowerChars[CHOOSE i \in 1..Len(UpperChars) : UpperChars[i] = ch]
    ELSE ch

VALID_JOB_STATES ==
    << <<"P", "e", "n", "d", "i", "n", "g">>,
       <<"P", "r", "o", "v", "i", "s", "i", "o", "n", "e", "d">>,
       <<"R", "u", "n", "n", "i", "n", "g">>,
       <<"S", "t", "o", "p", "p", "e", "d">>,
       <<"E", "r", "r", "o", "r">>,
       <<"F", "a", "i", "l", "e", "d">>,
       <<"C", "a", "n", "c", "e", "l", "l", "e", "d">> >>

\* the state names of the service, in the order of VALID_JOB_STATES
StateNames == <<"Pending", "Provisioned", "Running", "Stopped", "Error", "Failed",
                "Cancelled">>

\* x.startswith(prefix)
startswith(x, prefix) ==
    /\ Len(prefix) <= Len(x)
    /\ \A i \in 1..Len(prefix) : x[i] = prefix[i]

\* the indices of the states of VALID_JOB_STATES that start with st
Matching(st) == {i \in 1..Len(VALID_JOB_STATES) : startswith(VALID_JOB_STATES[i], st)}

\* command_jobs, lines 184-185: upper-case the first character, keep the rest,
\* take the first state that starts with the result; IndexError on the empty
\* string and on no match
matching_state(state_arg) ==
    IF state_arg = <<>> THEN <<"IndexError">>
    ELSE LET state == <<upper(state_arg[1])>> \o Tail(state_arg)
         IN IF Matching(state) = {} THEN <<"IndexError">>
            ELSE <<"ok", CHOOSE i \in Matching(state) : \A j \in Matching(state) : i <= j>>

\* paperspace.jobs.list(filters): the jobs of the service, oldest first, that
\* are in the state the filter names (all when the filter is None)
jobs_list(js, state_filter) ==
    LET order == <<"j2", "j1">>
        keep(j) == /\ IsJob(js[j])
                   /\ state_filter = None \/ JobState(js[j]) = state_filter[2]
    IN SelectSeq(order, keep)

\* command_jobs
InvokeJobs(given) ==
    /\ Start("jobs", given)
    /\ ResetLocals
    /\ LET st == cmd_config'["state"]
           m == IF st = None THEN <<"ok", 0>> ELSE matching_state(st[2])
       IN IF m[1] # "ok"
          THEN /\ pc' = "crashed" /\ out' = <<>> /\ obs' = Obs0
          ELSE LET filter == IF st = None THEN None ELSE Str(StateNames[m[2]])
                   job_list == jobs_list(jobs, filter)
                   shown == IF cmd_config'["last"] # None
                            THEN LastSlice(job_list, cmd_config'["last"][2])
                            ELSE job_list
               IN /\ out' = <<<<"filter", filter>>>> \o
                              [i \in 1..Len(shown) |-> <<"job", shown[i]>>]
                  /\ obs' = [Obs0 EXCEPT !.others = 1]
                  /\ pc' = "done"
    /\ UNCHANGED <<yaml_file, last_info, jobs, page_cap, now>>

----------------------------------------------------------------------------
(* cli.py command_tail and the log-stream controller of pspace.py *)

\* command_tail up to the call of print_last_log_lines
InvokeTail(given) ==
    /\ Start("tail", given)
    /\ ResetLocals
    /\ obs' = Obs0
    /\ IF ~LastIsInt(cmd_config'["last"])
       THEN pc' = "crashed" /\ out' = <<>>
       ELSE IF cmd_config'["job_id"] = None
       THEN pc' = "done" /\ out' = <<<<"text", "Cannot determine job id.">>>>
       ELSE pc' = "pl_show" /\ out' = <<>>
    /\ UNCHANGED <<yaml_file, last_info, jobs, page_cap, now>>

\* print_last_log_lines, lines 417-428: the first get_job_info. An error record
\* goes back to command_tail, which prints it and returns. Without follow, a job
\* that has not started gets no log fetch and command_tail saves at once.
PlShow ==
    /\ pc = "pl_show"
    /\ job_info' = show(jobs, job_id)
    /\ line_start' = LineStartOf(cmd_config, tail_lines)
    /\ IF IsError(job_info')
       THEN /\ out' = Append(out, ErrorLine(job_info'))
            /\ obs' = [obs EXCEPT !.shows = @ + 1]
            /\ pc' = "done"
            /\ UNCHANGED <<last_info, total_log_lines>>
       ELSE IF follow
       THEN /\ out' = Append(out, <<"Job", job_id>>)
            /\ obs' = [obs EXCEPT !.shows = @ + 1]
            /\ pc' = "fjs_show"
            /\ total_log_lines' = Num(0)
            /\ UNCHANGED last_info
       ELSE IF job_started(job_info')
       THEN /\ out' = out \o <<<<"Job", job_id>>, <<"State", Get(job_info', "state")>>>>
            /\ obs' = [obs EXCEPT !.shows = @ + 1]
            /\ pc' = "pl_fetch"
            /\ total_log_lines' = Num(0)
            /\ UNCHANGED last_info
       ELSE /\ out' = out \o <<<<"Job", job_id>>, <<"State", Get(job_info', "state")>>>>
            /\ obs' = [obs EXCEPT !.shows = @ + 1,
                                  !.saves = IF get_yaml_cwd(yaml_file) = None THEN @ ELSE @ + 1]
            /\ total_log_lines' = Num(0)
            /\ last_info' = TailSave(job_info', 0)
            /\ pc' = "done"
    /\ UNCHANGED <<yaml_file, jobs, page_cap, now, cmd, argv, args, cmd_config,
                   fetch, last_log_line>>

\* follow_job_state, lines 388-390: its own get_job_info. job_info['state'] of
\* an error record raises KeyError.
FjsShow ==
    /\ pc = "fjs_show"
    /\ job_info' = show(jobs, job_id)
    /\ obs' = [obs EXCEPT !.shows = @ + 1]
    /\ IF IsError(job_info')
       THEN pc' = "crashed" /\ out' = out
       ELSE /\ out' = Append(out, <<"State", Get(job_info', "state")>>)
            /\ pc' = IF job_not_started(job_info') THEN "fjs_sleep" ELSE "pl_fetch"
    /\ UNCHANGED <<envVars, cmd, argv, args, cmd_config, line_start, fetch,
                   last_log_line, total_log_lines>>

\* follow_job_state, line 393: time.sleep(5)
FjsSleep ==
    /\ pc = "fjs_sleep"
    /\ now + SLEEP_SECS <= MaxTime
    /\ now' = now + SLEEP_SECS
    /\ obs' = [obs EXCEPT !.sleeps = @ + 1]
    /\ pc' = "fjs_poll"
    /\ UNCHANGED <<yaml_file, last_info, jobs, page_cap, cmd, argv, args, cmd_config,
                   locVars, out>>

\* follow_job_state, lines 394-398: poll the state, print it when it changed
FjsPoll ==
    /\ pc = "fjs_poll"
    /\ job_info' = show(jobs, job_id)
    /\ obs' = [obs EXCEPT !.shows = @ + 1]
    /\ IF IsError(job_info')
       THEN pc' = "crashed" /\ out' = out
       ELSE /\ out' = IF Get(job_info', "state") # Get(job_info, "state")
                      THEN Append(out, <<"State", Get(job_info', "state")>>)
                      ELSE out
            /\ pc' = IF job_not_started(job_info') THEN "fjs_sleep" ELSE "pl_fetch"
    /\ UNCHANGED <<envVars, cmd, argv, args, cmd_config, line_start, fetch,
                   last_log_line, total_log_lines>>

\* print_last_log_lines, lines 432-444, for a started job: fetch from
\* line_start, print the last tail_lines lines, then follow_log when following
\* and the sentinel is not the last line; otherwise command_tail saves.
PlFetch ==
    /\ pc = "pl_fetch"
    /\ fetch' = get_log_lines(RemoteLog(jobs, job_id), page_cap, line_start)
    /\ total_log_lines' = Num(line_start + Len(fetch'.msgs))
    /\ out' = out \o LogOut(LastSlice(fetch'.msgs, tail_lines))
    /\ last_log_line' = IF Len(fetch'.msgs) > 0 THEN fetch'.msgs[Len(fetch'.msgs)] ELSE ""
    /\ IF follow /\ last_log_line' # PSEOF
       THEN /\ line_start' = Len(fetch'.msgs) + line_start
            /\ obs' = [obs EXCEPT !.fetches = @ + 1, !.first_offset = line_start]
            /\ pc' = "fl_show"
            /\ UNCHANGED last_info
       ELSE /\ line_start' = line_start
            /\ obs' = [obs EXCEPT !.fetches = @ + 1, !.first_offset = line_start,
                                  !.saves = IF get_yaml_cwd(yaml_file) = None THEN @ ELSE @ + 1]
            /\ last_info' = TailSave(job_info, total_log_lines'[2])
            /\ pc' = "done"
    /\ UNCHANGED <<yaml_file, jobs, page_cap, now, cmd, argv, args, cmd_config, job_info>>

\* follow_log without the dead-man timeout
FlTimedOut_never(ji, t) == FALSE

\* follow_log with the dead-man timeout taken at 20 seconds already
FlTimedOut_at_20(ji, t) == job_done(ji) /\ seconds_since_done(ji, t) >= DEADMAN_SECS

\* follow_log, line 373: the job is done for more than 20 seconds
FlTimedOut(ji, t) == job_done(ji) /\ seconds_since_done(ji, t) > DEADMAN_SECS

\* follow_log, lines 367-374: poll the job; an error record raises KeyError in
\* job_done; break when the job is done for more than 20 seconds, and
\* command_tail saves.
FlShow ==
    /\ pc = "fl_show"
    /\ job_info' = show(jobs, job_id)
    /\ IF IsError(job_info')
       THEN /\ out' = Append(out, <<"text", "DEBUG: Error in job_info:">>)
            /\ obs' = [obs EXCEPT !.shows = @ + 1]
            /\ pc' = "crashed"
            /\ UNCHANGED last_info
       ELSE IF FlTimedOut(job_info', now)
       THEN /\ obs' = [obs EXCEPT !.shows = @ + 1, !.ended = "timeout",
                                  !.saves = IF get_yaml_cwd(yaml_file) = None THEN @ ELSE @ + 1]
            /\ last_info' = TailSave(job_info', total_log_lines[2])
            /\ pc' = "done"
            /\ out' = out
       ELSE /\ obs' = [obs EXCEPT !.shows = @ + 1]
            /\ pc' = "fl_sleep"
            /\ out' = out
            /\ UNCHANGED last_info
    /\ UNCHANGED <<yaml_file, jobs, page_cap, now, cmd, argv, args, cmd_config,
                   line_start, fetch, last_log_line, total_log_lines>>

\* follow_log, line 376: time.sleep(5)
FlSleep ==
    /\ pc = "fl_sleep"
    /\ now + SLEEP_SECS <= MaxTime
    /\ now' = now + SLEEP_SECS
    /\ obs' = [obs EXCEPT !.sleeps = @ + 1]
    /\ pc' = "fl_fetch"
    /\ UNCHANGED <<yaml_file, last_info, jobs, page_cap, cmd, argv, args, cmd_config,
                   locVars, out>>

\* follow_log that loops whatever the last line is
FlContinue_ignoring_sentinel(last) == TRUE

\* follow_log, line 366: the loop goes on while the last line is not PSEOF
FlContinue(last) == last # PSEOF

\* follow_log that does not advance line_start by the lines it fetched
FlFetch_not_advancing ==
    /\ pc = "fl_fetch"
    /\ fetch' = get_log_lines(RemoteLog(jobs, job_id), page_cap, line_start)
    /\ line_start' = line_start
    /\ last_log_line' = IF Len(fetch'.msgs) > 0 THEN fetch'.msgs[Len(fetch'.msgs)]
                        ELSE last_log_line
    /\ out' = out \o LogOut(fetch'.msgs)
    /\ IF FlContinue(last_log_line')
       THEN /\ obs' = [obs EXCEPT !.fetches = @ + 1]
            /\ pc' = "fl_show"
            /\ UNCHANGED last_info
       ELSE /\ obs' = [obs EXCEPT !.fetches = @ + 1, !.ended = "sentinel",
                                  !.saves = IF get_yaml_cwd(yaml_file) = None THEN @ ELSE @ + 1]
            /\ last_info' = TailSave(job_info, total_log_lines[2])
            /\ pc' = "done"
    /\ UNCHANGED <<yaml_file, jobs, page_cap, now, cmd, argv, args, cmd_config,
                   job_info, total_log_lines>>

\* follow_log, lines 378-382 and the loop test of line 366: fetch from
\* line_start, advance it, print the new lines; leave the loop when the last
\* line fetched so far is PSEOF, and command_tail saves.
FlFetch ==
    /\ pc = "fl_fetch"
    /\ fetch' = get_log_lines(RemoteLog(jobs, job_id), page_cap, line_start)
    /\ line_start' = line_start + Len(fetch'.msgs)
    /\ last_log_line' = IF Len(fetch'.msgs) > 0 THEN fetch'.msgs[Len(fetch'.msgs)]
                        ELSE last_log_line
    /\ out' = out \o LogOut(fetch'.msgs)
    /\ IF FlContinue(last_log_line')
       THEN /\ obs' = [obs EXCEPT !.fetches = @ + 1]
            /\ pc' = "fl_show"
            /\ UNCHANGED last_info
       ELSE /\ obs' = [obs EXCEPT !.fetches = @ + 1, !.ended = "sentinel",
                                  !.saves = IF get_yaml_cwd(yaml_file) = None THEN @ ELSE @ + 1]
            /\ last_info' = TailSave(job_info, total_log_lines[2])
            /\ pc' = "done"
    /\ UNCHANGED <<yaml_file, jobs, page_cap, now, cmd, argv, args, cmd_config,
                   job_info, total_log_lines>>

----------------------------------------------------------------------------
(* The environment: the remote jobs run, their logs grow, time passes *)

\* pspace.py, lines 64-67: Pending -> Provisioned -> Running -> Stopped or
\* Failed; Error and Cancelled from any state that is not done
NextStates(st) ==
    CASE st = "Pending" -> {"Provisioned", "Error", "Cancelled"}
      [] st = "Provisioned" -> {"Running", "Error", "Cancelled"}
      [] st = "Running" -> {"Stopped", "Failed", "Error", "Cancelled"}
      [] OTHER -> {}

JobAdvance(j) ==
    /\ ~Ended
    /\ IsJob(jobs[j])
    /\ \E st \in NextStates(JobState(jobs[j])) :
          jobs' = [jobs EXCEPT ![j] =
                      Job(st, JobLog(jobs[j]),
                          IF st \in DoneStates THEN Num(now) ELSE None)]
    /\ UNCHANGED <<yaml_file, last_info, page_cap, now, pc, cmd, argv, args, cmd_config,
                   locVars, out, obs>>

\* a started job writes a log line; the service ends the log with PSEOF, after
\* which the log does not grow; the last lines and PSEOF arrive within 20
\* seconds of the job's end
LogAppend(j) ==
    /\ ~Ended
    /\ IsJob(jobs[j])
    /\ JobState(jobs[j]) \notin NotStartedStates
    /\ JobState(jobs[j]) \in DoneStates => now - JobFinished(jobs[j])[2] <= DEADMAN_SECS
    /\ Len(JobLog(jobs[j])) < MaxLog
    /\ IF Len(JobLog(jobs[j])) = 0 THEN TRUE
       ELSE JobLog(jobs[j])[Len(JobLog(jobs[j]))] # PSEOF
    /\ \E text \in {LineTexts[Len(JobLog(jobs[j])) + 1], PSEOF} :
          jobs' = [jobs EXCEPT ![j] =
                      Job(JobState(jobs[j]), Append(JobLog(jobs[j]), text),
                          JobFinished(jobs[j]))]
    /\ UNCHANGED <<yaml_file, last_info, page_cap, now, pc, cmd, argv, args, cmd_config,
                   locVars, out, obs>>

----------------------------------------------------------------------------
(* The client in its working context *)

\* the command lines of the model
TailArgvs ==
    {g \in UNION {[ks -> {Str("j1"), Str("j2"), Str("1"), Bool(TRUE)}] :
                     ks \in SUBSET {"job_id", "follow", "last"}} :
        /\ "job_id" \in DOMAIN g => g["job_id"] \in {Str("j1"), Str("j2")}
        /\ "follow" \in DOMAIN g => g["follow"] = Bool(TRUE)
        /\ "last" \in DOMAIN g => g["last"] = Str("1")}

JobIdArgvs == {<<>>} \cup {[x \in {"job_id"} |-> Str(j)] : j \in JobIds}

CreateArgvs == {<<>>, [x \in {"commands"} |-> Str("ls")]}

JobsArgvs == {<<>>, [x \in {"last"} |-> Num(1)],
              [x \in {"state"} |-> Str(<<"s", "t", "o", "p">>)],
              [x \in {"state"} |-> Str(<<"x">>)]}

\* the project config files a working context starts with
YamlFiles ==
    {NoFile,
     File(Dict([x \in {"tail"} |-> Dict([total_log_lines |-> Num(1)])]))}

\* an old job j2, stopped 20 seconds ago, its log without PSEOF; job j1 does
\* not exist until create makes it
Init ==
    /\ yaml_file \in YamlFiles
    /\ last_info = NoFile
    /\ jobs = [j \in JobIds |->
                 IF j = "j2" THEN Job("Stopped", [i \in 1..MaxLog |-> LineTexts[i]],
                                      Num(0 - DEADMAN_SECS))
                 ELSE None]
    /\ page_cap = 1
    /\ now = 0
    /\ pc = "idle"
    /\ cmd = "none"
    /\ argv = <<>>
    /\ args = <<>>
    /\ cmd_config = <<>>
    /\ job_info = None
    /\ line_start = 0
    /\ fetch = NoFetch
    /\ last_log_line = ""
    /\ total_log_lines = None
    /\ out = <<>>
    /\ obs = Obs0

\* cli(), lines 303-312: the process exits
Exit ==
    /\ Ended
    /\ pc' = "idle"
    /\ cmd' = "none" /\ argv' = <<>> /\ args' = <<>> /\ cmd_config' = <<>>
    /\ ResetLocals
    /\ out' = <<>>
    /\ obs' = Obs0
    /\ UNCHANGED envVars

Next ==
    \/ InvokeNewyaml
    \/ \E g \in JobIdArgvs : InvokeStatus(g)
    \/ \E g \in CreateArgvs, accepted \in BOOLEAN : InvokeCreate(g, accepted)
    \/ \E g \in JobIdArgvs : InvokeStop(g)
    \/ \E g \in JobIdArgvs : InvokeGetart(g)
    \/ \E g \in JobsArgvs : InvokeJobs(g)
    \/ \E g \in TailArgvs : InvokeTail(g)
    \/ PlShow
    \/ FjsShow
    \/ FjsSleep
    \/ FjsPoll
    \/ PlFetch
    \/ FlShow
    \/ FlSleep
    \/ FlFetch
    \/ \E j \in JobIds : JobAdvance(j)
    \/ \E j \in JobIds : LogAppend(j)
    \/ Exit

Spec == Init /\ [][Next]_vars

----------------------------------------------------------------------------
(* The configuration resolver on its own: the inputs are drawn in CfgInit,   *)
(* CfgResolve parses the command line and resolves the configuration.        *)

\* values an option can be given on the command line
CliVals(c, k) ==
    CASE k = "machineType" -> <<Str("V100")>>
      [] k = "project" -> <<Str(""), Str("proj")>>
      [] k = "ignoreFiles" -> <<Str("a,b")>>
      [] k = "container" -> <<Str("img")>>
      [] k = "commands" -> <<Str("ls")>>
      [] k = "job_id" -> <<Str("j2")>>
      [] k = "follow" -> <<Bool(TRUE)>>
      [] k = "utc" -> <<Bool(TRUE)>>
      [] k = "last" -> IF c = "jobs" THEN <<Num(0), Num(2)>> ELSE <<Str("0"), Str("2")>>
      [] k = "state" -> <<Str(<<"s", "t", "o", "p">>)>>
      [] k = "destdir" -> <<Str("out")>>

\* the value the project config file gives an option, when it sets it
YamlVal(k) ==
    CASE k = "machineType" -> Str("P4000")
      [] k = "project" -> Str("yproj")
      [] k = "ignoreFiles" -> List(<<"y">>)
      [] k = "container" -> Str("yimg")
      [] k = "commands" -> List(<<"make">>)
      [] k = "job_id" -> Str("j1")
      [] k = "follow" -> Bool(TRUE)
      [] k = "utc" -> Bool(TRUE)
      [] k = "last" -> Num(3)
      [] k = "state" -> Str(<<"R", "u", "n">>)
      [] k = "destdir" -> Str("ydata")
      [] k = "total_log_lines" -> Num(1)
      [] k = "last_job_id" -> Str("j2")

CfgArgvs(c) ==
    UNION {{[k \in ks |-> CliVals(c, k)[i[k]]] :
                i \in {x \in [ks -> 1..2] : \A k \in ks : x[k] <= Len(CliVals(c, k))}} :
           ks \in SUBSET Options(c)}

CfgYamlFiles(c) ==
    {NoFile, File(None), File(EmptyDict), File(Dict([x \in {"other"} |-> EmptyDict]))}
    \cup {File(Dict([x \in {c} |-> Dict([k \in ks |-> YamlVal(k)])])) :
            ks \in SUBSET (Options(c) \cup ExtraKeys(c))}

\* RunState files as save_last_info leaves them: after status or create (no
\* extra_info) and after tail
CfgLastInfos ==
    {NoFile,
     File(Dict([job_info |-> Dict([id |-> Str("j3"), state |-> Str("Running")]),
                pspace_info |-> Dict([info_updated |-> Num(0)])])),
     File(Dict([job_info |-> Dict([id |-> Str("j3"), state |-> Str("Stopped"),
                                   dtFinished |-> Num(0)]),
                pspace_info |-> Dict([info_updated |-> Num(0),
                                      total_log_lines |-> Num(2),
                                      last_job_id |-> Str("j3")])]))}

CfgInit ==
    /\ cmd \in Commands \ {"newyaml"}
    /\ argv \in CfgArgvs(cmd)
    /\ yaml_file \in CfgYamlFiles(cmd)
    /\ last_info \in CfgLastInfos
    /\ jobs = [j \in JobIds |-> None]
    /\ page_cap = 1
    /\ now = 0
    /\ pc = "start"
    /\ args = <<>>
    /\ cmd_config = <<>>
    /\ job_info = None
    /\ line_start = 0
    /\ fetch = NoFetch
    /\ last_log_line = ""
    /\ total_log_lines = None
    /\ out = <<>>
    /\ obs = Obs0

CfgResolve ==
    /\ pc = "start"
    /\ args' = process_command_line(cmd, argv)
    /\ cmd_config' = get_cmd_config(cmd, process_command_line(cmd, argv), ExtraKeys(cmd),
                                    yaml_file, last_info)
    /\ pc' = "resolved"
    /\ UNCHANGED <<envVars, locVars, cmd, argv, out, obs>>

CfgNext == CfgResolve

SpecCfg == CfgInit /\ [][CfgNext]_vars

----------------------------------------------------------------------------
(* get_log_lines on its own: a log, a start offset and a page cap are drawn   *)
(* in PageInit, PageFetch applies get_log_lines to them.                      *)

MaxPageLog == 4
MaxPageCap == 3

PageInit ==
    /\ \E n \in 0..MaxPageLog :
          jobs = [j \in JobIds |->
                    IF j = "j1" THEN Job("Running", [i \in 1..n |-> LineTexts[i]], None)
                    ELSE None]
    /\ line_start \in 0..(MaxPageLog + 1)
    /\ line_start <= Len(JobLog(jobs["j1"])) + 1
    /\ page_cap \in 1..MaxPageCap
    /\ yaml_file = NoFile
    /\ last_info = NoFile
    /\ now = 0
    /\ pc = "start"
    /\ cmd = "none"
    /\ argv = <<>>
    /\ args = <<>>
    /\ cmd_config = <<>>
    /\ job_info = None
    /\ fetch = NoFetch
    /\ last_log_line = ""
    /\ total_log_lines = None
    /\ out = <<>>
    /\ obs = Obs0

PageFetch ==
    /\ pc = "start"
    /\ fetch' = get_log_lines(RemoteLog(jobs, Str("j1")), page_cap, line_start)
    /\ pc' = "fetched"
    /\ UNCHANGED <<envVars, cmd, argv, args, cmd_config, job_info, line_start,
                   last_log_line, total_log_lines, out, obs>>

PageNext == PageFetch

SpecPage == PageInit /\ [][PageNext]_vars

----------------------------------------------------------------------------
(* command_jobs on its own: any state filter of up to MaxFilterLen characters *)
(* and any last count up to MaxLast, against a service with two jobs.         *)

MaxFilterLen == 3
MaxLast == 2

FilterChars == {"s", "S", "t", "T", "o", "O", "r", "R", "u", "p", "P", "e"}

FilterStrings == UNION {[1..n -> FilterChars] : n \in 0..MaxFilterLen}

JobsArgvsWide ==
    {<<>>}
    \cup {[x \in {"state"} |-> Str(f)] : f \in FilterStrings}
    \cup {[x \in {"last"} |-> Num(n)] : n \in 0..MaxLast}
    \cup {[x \in {"state", "last"} |-> IF x = "state" THEN Str(f) ELSE Num(n)] :
            f \in {<<"s">>, <<"r">>, <<"p">>}, n \in 0..MaxLast}

JobsInit ==
    /\ yaml_file = NoFile
    /\ last_info = NoFile
    /\ jobs \in {[j \in JobIds |->
                    IF j = "j2" THEN Job("Stopped", <<LineTexts[1]>>, Num(0)) ELSE j1] :
                 j1 \in {None, Job("Running", <<>>, None), Job("Stopped", <<>>, Num(0))}}
    /\ page_cap = 1
    /\ now = 0
    /\ pc = "idle"
    /\ cmd = "none"
    /\ argv = <<>>
    /\ args = <<>>
    /\ cmd_config = <<>>
    /\ job_info = None
    /\ line_start = 0
    /\ fetch = NoFetch
    /\ last_log_line = ""
    /\ total_log_lines = None
    /\ out = <<>>
    /\ obs = Obs0

JobsNext ==
    \/ \E g \in JobsArgvsWide : InvokeJobs(g)
    \/ Exit

SpecJobs == JobsInit /\ [][JobsNext]_vars

----------------------------------------------------------------------------
(* One tail in follow mode of a job that reaches a done state: the job j1    *)
(* exists when the tail starts at LiveStart and is done by LiveDeadline, the *)
(* clock advances by the sleeps of the controller. The controller, a         *)
(* sequential program, takes its next step when it has one (weak fairness of *)
(* each of its steps); the job does not stay for ever in a state that is not *)
(* done (weak fairness of JobAdvance).                                       *)

LiveStart == MaxTime - (DEADMAN_SECS + 4 * SLEEP_SECS)
LiveDeadline == MaxTime - (DEADMAN_SECS + SLEEP_SECS)

\* the clock does not pass LiveDeadline while the job is not done
DoneByDeadline ==
    now + SLEEP_SECS > LiveDeadline => JobState(jobs["j1"]) \in DoneStates

LiveArgvs ==
    {[x \in {"job_id", "follow"} |-> IF x = "job_id" THEN Str("j1") ELSE Bool(TRUE)]}

LiveInit ==
    /\ yaml_file = NoFile
    /\ last_info = NoFile
    /\ jobs \in {[j \in JobIds |-> IF j = "j1" THEN Job(st, <<>>, None) ELSE None] :
                   st \in {"Pending", "Running"}}
    /\ page_cap = 1
    /\ now = LiveStart
    /\ pc = "idle"
    /\ cmd = "none"
    /\ argv = <<>>
    /\ args = <<>>
    /\ cmd_config = <<>>
    /\ job_info = None
    /\ line_start = 0
    /\ fetch = NoFetch
    /\ last_log_line = ""
    /\ total_log_lines = None
    /\ out = <<>>
    /\ obs = Obs0

LiveFjsSleep == FjsSleep /\ DoneByDeadline
LiveFlSleep == FlSleep /\ DoneByDeadline

LiveNext ==
    \/ \E g \in LiveArgvs : InvokeTail(g)
    \/ PlShow
    \/ FjsShow
    \/ LiveFjsSleep
    \/ FjsPoll
    \/ PlFetch
    \/ FlShow
    \/ LiveFlSleep
    \/ FlFetch
    \/ JobAdvance("j1")
    \/ LogAppend("j1")

LiveFairness ==
    /\ WF_vars(PlShow)
    /\ WF_vars(FjsShow)
    /\ WF_vars(LiveFjsSleep)
    /\ WF_vars(FjsPoll)
    /\ WF_vars(PlFetch)
    /\ WF_vars(FlShow)
    /\ WF_vars(LiveFlSleep)
    /\ WF_vars(FlFetch)
    /\ WF_vars(JobAdvance("j1"))

SpecLive == LiveInit /\ [][LiveNext]_vars /\ LiveFairness

----------------------------------------------------------------------------
(* The status command with the write of save_last_info in the two steps the  *)
(* code makes of it: open('w') creates or truncates the RunState file, then  *)
(* yaml.dump writes the new content into it (pspace.py 514-515). The         *)
(* operator's interrupt can arrive before either step; cli() then prints its *)
(* message on stderr and exits, and the file stays as the last step left it. *)
(* An empty RunState file has the content None (yaml.safe_load of an empty   *)
(* stream); get_cmd_config indexes it without a test, so that no invocation  *)
(* is started from it here.                                                  *)

Interrupted == pc = "interrupted"

SaveArgvs == {[x \in {"job_id"} |-> Str(j)] : j \in JobIds} \cup {<<>>}

SaveInit ==
    /\ yaml_file \in YamlFiles
    /\ last_info = NoFile
    /\ jobs \in {[j \in JobIds |->
                    IF j = "j1" THEN Job(st, <<>>, None)
                    ELSE Job("Stopped", [i \in 1..MaxLog |-> LineTexts[i]],
                             Num(0 - DEADMAN_SECS))] :
                   st \in {"Pending", "Running"}}
    /\ page_cap = 1
    /\ now = 0
    /\ pc = "idle"
    /\ cmd = "none"
    /\ argv = <<>>
    /\ args = <<>>
    /\ cmd_config = <<>>
    /\ job_info = None
    /\ line_start = 0
    /\ fetch = NoFetch
    /\ last_log_line = ""
    /\ total_log_lines = None
    /\ out = <<>>
    /\ obs = Obs0

\* command_status, lines 160-170: up to the call of save_last_info
SaveStatusCall(given) ==
    /\ last_info # File(None)
    /\ Start("status", given)
    /\ LET jid == cmd_config'["job_id"]
           ji == show(jobs, jid)
       IN IF jid = None
          THEN /\ out' = <<<<"text", "Cannot determine job id.">>>>
               /\ obs' = Obs0
               /\ job_info' = None
               /\ pc' = "done"
          ELSE IF IsError(ji)
          THEN /\ out' = <<ErrorLine(ji)>>
               /\ obs' = [Obs0 EXCEPT !.shows = 1]
               /\ job_info' = ji
               /\ pc' = "done"
          ELSE /\ out' = <<>>
               /\ obs' = [Obs0 EXCEPT !.shows = 1]
               /\ job_info' = ji
               /\ pc' = "save_open"
    /\ line_start' = 0 /\ fetch' = NoFetch /\ last_log_line' = "" /\ total_log_lines' = None
    /\ UNCHANGED envVars

\* save_last_info, lines 498-514: return without a project config file (then
\* command_status prints the status), else open the RunState file for writing
SaveOpen ==
    /\ pc = "save_open"
    /\ IF get_yaml_cwd(yaml_file) = None
       THEN /\ pc' = "done"
            /\ out' = <<<<"status", Get(job_info, "id"), Get(job_info, "state")>>>>
            /\ UNCHANGED <<last_info, obs>>
       ELSE /\ pc' = "save_dump"
            /\ last_info' = File(None)
            /\ obs' = [obs EXCEPT !.saves = 1]
            /\ out' = out
    /\ UNCHANGED <<yaml_file, jobs, page_cap, now, cmd, argv, args, cmd_config, locVars>>

\* save_last_info, line 515, then command_status, lines 174-175
SaveDump ==
    /\ pc = "save_dump"
    /\ last_info' = save_last_info(yaml_file, last_info, job_info, <<>>, now)
    /\ out' = <<<<"status", Get(job_info, "id"), Get(job_info, "state")>>>>
    /\ pc' = "done"
    /\ UNCHANGED <<yaml_file, jobs, page_cap, now, cmd, argv, args, cmd_config, locVars, obs>>

\* KeyboardInterrupt raised in save_last_info, caught by cli()
SaveInterrupt ==
    /\ pc \in {"save_open", "save_dump"}
    /\ pc' = "interrupted"
    /\ UNCHANGED <<envVars, cmd, argv, args, cmd_config, locVars, out, obs>>

\* cli(), lines 306-312: the process exits after an interrupt
ExitInterrupted ==
    /\ Interrupted
    /\ pc' = "idle"
    /\ cmd' = "none" /\ argv' = <<>> /\ args' = <<>> /\ cmd_config' = <<>>
    /\ ResetLocals
    /\ out' = <<>>
    /\ obs' = Obs0
    /\ UNCHANGED envVars

SaveNext ==
    \/ \E g \in SaveArgvs : SaveStatusCall(g)
    \/ SaveOpen
    \/ SaveDump
    \/ SaveInterrupt
    \/ JobAdvance("j1")
    \/ LogAppend("j1")
    \/ Exit
    \/ ExitInterrupted

SpecSave == SaveInit /\ [][SaveNext]_vars

----------------------------------------------------------------------------
(* The commands with the operator's interrupt. KeyboardInterrupt is raised   *)
(* in the main thread where it waits: in a time.sleep of the controller or   *)
(* in a request to the remote service. No handler catches it but cli(),      *)
(* which prints its message on stderr and exits with status 130. A request   *)
(* that is interrupted may or may not have reached the service.              *)

\* control points of tail: each is before a remote call or a sleep
TailWaitPoints ==
    {"pl_show", "fjs_show", "fjs_sleep", "fjs_poll", "pl_fetch",
     "fl_show", "fl_sleep", "fl_fetch"}

\* the interrupt in a remote call or sleep of the controller of tail
InterruptTail ==
    /\ pc \in TailWaitPoints
    /\ pc' = "interrupted"
    /\ UNCHANGED <<envVars, cmd, argv, args, cmd_config, locVars, out, obs>>

\* command_status interrupted in get_job_info (cli.py 166)
InterruptStatus(given) ==
    /\ Start("status", given)
    /\ ResetLocals
    /\ cmd_config'["job_id"] # None
    /\ pc' = "interrupted"
    /\ out' = <<>>
    /\ obs' = Obs0
    /\ UNCHANGED envVars

\* command_create interrupted in jobs_create (cli.py 252)
InterruptCreate(given, reached) ==
    /\ Start("create", given)
    /\ ResetLocals
    /\ cmd_config'["commands"] # None
    /\ pc' = "interrupted"
    /\ out' = <<<<"text", "Submitting with options:">>>>
    /\ obs' = Obs0
    /\ jobs' = IF reached /\ jobs["j1"] = None
               THEN [jobs EXCEPT !["j1"] = Job("Pending", <<>>, None)]
               ELSE jobs
    /\ UNCHANGED <<yaml_file, last_info, page_cap, now>>

\* command_stop interrupted in stop_job (cli.py 275)
InterruptStop(given, reached) ==
    /\ Start("stop", given)
    /\ ResetLocals
    /\ cmd_config'["job_id"] # None
    /\ pc' = "interrupted"
    /\ out' = <<<<"stopping", cmd_config'["job_id"]>>>>
    /\ obs' = Obs0
    /\ LET jid == cmd_config'["job_id"]
       IN jobs' = IF reached /\ ~IsError(show(jobs, jid)) /\ ~job_done(show(jobs, jid))
                  THEN [jobs EXCEPT ![jid[2]] =
                           Job("Cancelled", JobLog(jobs[jid[2]]), Num(now))]
                  ELSE jobs
    /\ UNCHANGED <<yaml_file, last_info, page_cap, now>>

\* command_getart interrupted in get_artifacts or save_log (cli.py 266-268)
InterruptGetart(given) ==
    /\ Start("getart", given)
    /\ ResetLocals
    /\ cmd_config'["job_id"] # None
    /\ pc' = "interrupted"
    /\ out' = <<<<"retrieving", cmd_config'["job_id"]>>>>
    /\ obs' = Obs0
    /\ UNCHANGED envVars

\* command_jobs interrupted in jobs_list (cli.py 190)
InterruptJobs(given) ==
    /\ Start("jobs", given)
    /\ ResetLocals
    /\ IF cmd_config'["state"] = None THEN TRUE
       ELSE matching_state(cmd_config'["state"][2])[1] = "ok"
    /\ pc' = "interrupted"
    /\ out' = <<>>
    /\ obs' = Obs0
    /\ UNCHANGED envVars

\* the status sys.exit gets: main's return value, 130 after the interrupt, and
\* 1 from the interpreter after an exception nothing catches; -1 stands for a
\* process that has not exited
ExitStatus ==
    CASE pc = "done" -> 0
      [] pc = "interrupted" -> 130
      [] pc = "crashed" -> 1
      [] OTHER -> -1

IntInit ==
    /\ Init
    /\ get_yaml_cwd(yaml_file) # None

\* the command lines of tail: no job id, a follow of the job create makes, a
\* snapshot of the old job
IntTailArgvs ==
    {<<>>,
     [x \in {"job_id", "follow"} |-> IF x = "job_id" THEN Str("j1") ELSE Bool(TRUE)],
     [x \in {"job_id"} |-> Str("j2")]}

IntNext ==
    \/ InvokeNewyaml
    \/ \E g \in JobIdArgvs : InvokeStatus(g)
    \/ \E g \in CreateArgvs, accepted \in BOOLEAN : InvokeCreate(g, accepted)
    \/ \E g \in JobIdArgvs : InvokeStop(g)
    \/ \E g \in JobIdArgvs : InvokeGetart(g)
    \/ \E g \in JobsArgvs : InvokeJobs(g)
    \/ \E g \in IntTailArgvs : InvokeTail(g)
    \/ PlShow
    \/ FjsShow
    \/ FjsSleep
    \/ FjsPoll
    \/ PlFetch
    \/ FlShow
    \/ FlSleep
    \/ FlFetch
    \/ \E j \in JobIds : JobAdvance(j)
    \/ \E j \in JobIds : LogAppend(j)
    \/ Exit
    \/ InterruptTail
    \/ \E g \in JobIdArgvs : InterruptStatus(g)
    \/ \E g \in CreateArgvs, reached \in BOOLEAN : InterruptCreate(g, reached)
    \/ \E g \in JobIdArgvs, reached \in BOOLEAN : InterruptStop(g, reached)
    \/ \E g \in JobIdArgvs : InterruptGetart(g)
    \/ \E g \in JobsArgvs : InterruptJobs(g)
    \/ ExitInterrupted

SpecInt == IntInit /\ [][IntNext]_vars

----------------------------------------------------------------------------
(* The commands that read and write the RunState, in a working context whose  *)
(* project config file exists and sets no key: an empty pspace.yaml, which    *)
(* yaml.safe_load parses to None, or one that holds the empty mapping {}.     *)

LastYamlFiles == {File(None), File(EmptyDict)}

\* the command lines of tail: no job id, with and without follow, and a job id
LastTailArgvs ==
    {<<>>,
     [x \in {"follow"} |-> Bool(TRUE)],
     [x \in {"job_id"} |-> Str("j2")],
     [x \in {"job_id", "follow"} |-> IF x = "job_id" THEN Str("j1") ELSE Bool(TRUE)]}

LastInit ==
    /\ yaml_file \in LastYamlFiles
    /\ last_info = NoFile
    /\ jobs = [j \in JobIds |->
                 IF j = "j2" THEN Job("Stopped", [i \in 1..MaxLog |-> LineTexts[i]],
                                      Num(0 - DEADMAN_SECS))
                 ELSE None]
    /\ page_cap = 1
    /\ now = 0
    /\ pc = "idle"
    /\ cmd = "none"
    /\ argv = <<>>
    /\ args = <<>>
    /\ cmd_config = <<>>
    /\ job_info = None
    /\ line_start = 0
    /\ fetch = NoFetch
    /\ last_log_line = ""
    /\ total_log_lines = None
    /\ out = <<>>
    /\ obs = Obs0

LastNext ==
    \/ \E g \in JobIdArgvs : InvokeStatus(g)
    \/ \E g \in CreateArgvs, accepted \in BOOLEAN : InvokeCreate(g, accepted)
    \/ \E g \in JobIdArgvs : InvokeStop(g)
    \/ \E g \in JobIdArgvs : InvokeGetart(g)
    \/ \E g \in LastTailArgvs : InvokeTail(g)
    \/ PlShow
    \/ FjsShow
    \/ FjsSleep
    \/ FjsPoll
    \/ PlFetch
    \/ FlShow
    \/ FlSleep
    \/ FlFetch
    \/ \E j \in JobIds : JobAdvance(j)
    \/ Exit

SpecLast == LastInit /\ [][LastNext]_vars

----------------------------------------------------------------------------
(* One tail in follow mode against a service whose show() may answer a poll   *)
(* with a record that lacks fields: an error record, a record without state,  *)
(* or the record of a done job without its dtFinished. The first lookup of    *)
(* print_last_log_lines is answered with the job's record.                    *)

\* the records without the expected fields
MalformedRecords(jid) ==
    {ErrorRecord(404, "Not found"),
     EmptyDict,
     Dict([id |-> jid, state |-> Str("Stopped")]),
     Dict([id |-> jid, state |-> Str("Failed"), dtFinished |-> None])}

HasState(ji) == Has(ji, "state")
HasFinished(ji) == Has(ji, "dtFinished") /\ Get(ji, "dtFinished") # None

\* follow_log that sleeps and polls again after a record it cannot use
FlShowMal_recovering(rec) ==
    /\ pc = "fl_show"
    /\ job_info' = rec
    /\ obs' = [obs EXCEPT !.shows = @ + 1]
    /\ out' = out
    /\ pc' = "fl_sleep"
    /\ UNCHANGED <<envVars, cmd, argv, args, cmd_config,
                   line_start, fetch, last_log_line, total_log_lines>>

\* follow_job_state, lines 388-390, answered with rec: job_info['state'] raises
\* KeyError without state; a done job is not "not started", the function
\* returns and print_last_log_lines goes on to the log fetch
FjsShowMal(rec) ==
    /\ pc = "fjs_show"
    /\ job_info' = rec
    /\ obs' = [obs EXCEPT !.shows = @ + 1]
    /\ IF ~HasState(rec)
       THEN pc' = "crashed" /\ out' = out
       ELSE /\ out' = Append(out, <<"State", Get(rec, "state")>>)
            /\ pc' = IF job_not_started(rec) THEN "fjs_sleep" ELSE "pl_fetch"
    /\ UNCHANGED <<envVars, cmd, argv, args, cmd_config, line_start, fetch,
                   last_log_line, total_log_lines>>

\* follow_job_state, lines 394-398, answered with rec
FjsPollMal(rec) ==
    /\ pc = "fjs_poll"
    /\ job_info' = rec
    /\ obs' = [obs EXCEPT !.shows = @ + 1]
    /\ IF ~HasState(rec)
       THEN pc' = "crashed" /\ out' = out
       ELSE /\ out' = IF Get(rec, "state") # Get(job_info, "state")
                      THEN Append(out, <<"State", Get(rec, "state")>>)
                      ELSE out
            /\ pc' = IF job_not_started(rec) THEN "fjs_sleep" ELSE "pl_fetch"
    /\ UNCHANGED <<envVars, cmd, argv, args, cmd_config, line_start, fetch,
                   last_log_line, total_log_lines>>

\* follow_log, lines 367-374, answered with rec: an error record is printed,
\* then job_done raises KeyError without state; for a done job
\* seconds_since_done raises KeyError without dtFinished and TypeError in
\* parse_jobinfo_dt when it is None
FlShowMal(rec) ==
    /\ pc = "fl_show"
    /\ job_info' = rec
    /\ obs' = [obs EXCEPT !.shows = @ + 1]
    /\ out' = IF IsError(rec) THEN Append(out, <<"text", "DEBUG: Error in job_info:">>)
              ELSE out
    /\ IF ~HasState(rec) THEN pc' = "crashed"
       ELSE IF job_done(rec) /\ ~HasFinished(rec) THEN pc' = "crashed"
       ELSE pc' = "fl_sleep"
    /\ UNCHANGED <<envVars, cmd, argv, args, cmd_config,
                   line_start, fetch, last_log_line, total_log_lines>>

MalInit ==
    /\ yaml_file = File(EmptyDict)
    /\ last_info = NoFile
    /\ jobs \in {[j \in JobIds |-> IF j = "j1" THEN Job(st, <<>>, None) ELSE None] :
                   st \in {"Pending", "Running"}}
    /\ page_cap = 1
    /\ now = 0
    /\ pc = "idle"
    /\ cmd = "none"
    /\ argv = <<>>
    /\ args = <<>>
    /\ cmd_config = <<>>
    /\ job_info = None
    /\ line_start = 0
    /\ fetch = NoFetch
    /\ last_log_line = ""
    /\ total_log_lines = None
    /\ out = <<>>
    /\ obs = Obs0

MalNext ==
    \/ \E g \in LiveArgvs : InvokeTail(g)
    \/ PlShow
    \/ FjsShow
    \/ FjsSleep
    \/ FjsPoll
    \/ PlFetch
    \/ FlShow
    \/ FlSleep
    \/ FlFetch
    \/ \E rec \in MalformedRecords(Str("j1")) : FjsShowMal(rec)
    \/ \E rec \in MalformedRecords(Str("j1")) : FjsPollMal(rec)
    \/ \E rec \in MalformedRecords(Str("j1")) : FlShowMal(rec)
    \/ JobAdvance("j1")
    \/ LogAppend("j1")
    \/ Exit

SpecMal == MalInit /\ [][MalNext]_vars

----------------------------------------------------------------------------
(* Tails of one running job whose log grows between them, in a working        *)
(* context whose project config file sets no key: the RunState one tail       *)
(* leaves is what the next one resumes from.                                  *)

MaxResumeLog == 4

\* the command lines of tail: snapshots with the counts 1, 2 and all, a follow
ResumeArgvs ==
    {[x \in {"job_id"} |-> Str("j1")],
     [x \in {"job_id", "last"} |-> IF x = "job_id" THEN Str("j1") ELSE Str("1")],
     [x \in {"job_id", "last"} |-> IF x = "job_id" THEN Str("j1") ELSE Str("2")],
     [x \in {"job_id", "follow", "last"} |->
         IF x = "job_id" THEN Str("j1") ELSE IF x = "follow" THEN Bool(TRUE) ELSE Str("1")]}

ResumeInit ==
    /\ yaml_file = File(EmptyDict)
    /\ last_info = NoFile
    /\ jobs = [j \in JobIds |-> IF j = "j1" THEN Job("Running", <<>>, None) ELSE None]
    /\ page_cap \in {1, 2}
    /\ now = 0
    /\ pc = "idle"
    /\ cmd = "none"
    /\ argv = <<>>
    /\ args = <<>>
    /\ cmd_config = <<>>
    /\ job_info = None
    /\ line_start = 0
    /\ fetch = NoFetch
    /\ last_log_line = ""
    /\ total_log_lines = None
    /\ out = <<>>
    /\ obs = Obs0

\* the running job writes a log line, or the service ends the log with PSEOF;
\* the log only grows
ResumeLogAppend ==
    /\ ~Ended
    /\ Len(JobLog(jobs["j1"])) < MaxResumeLog
    /\ IF Len(JobLog(jobs["j1"])) = 0 THEN TRUE
       ELSE JobLog(jobs["j1"])[Len(JobLog(jobs["j1"]))] # PSEOF
    /\ \E text \in {LineTexts[Len(JobLog(jobs["j1"])) + 1], PSEOF} :
          jobs' = [jobs EXCEPT !["j1"] =
                      Job("Running", Append(JobLog(jobs["j1"]), text), None)]
    /\ UNCHANGED <<yaml_file, last_info, page_cap, now, pc, cmd, argv, args, cmd_config,
                   locVars, out, obs>>

ResumeNext ==
    \/ \E g \in ResumeArgvs : InvokeTail(g)
    \/ PlShow
    \/ FjsShow
    \/ PlFetch
    \/ FlShow
    \/ FlSleep
    \/ FlFetch
    \/ ResumeLogAppend
    \/ Exit

SpecResume == ResumeInit /\ [][ResumeNext]_vars

----------------------------------------------------------------------------
(* Claims about the configuration resolver (checked under SpecCfg)           *)

\* the value the command line gives option k, as the parser stores it
GivenValue(k) == IF k \in StoreTrue(cmd) THEN Bool(TRUE) ELSE argv[k]

\* C1: precedence law. For every key of the resolved configuration, the
\* highest-precedence layer that sets the key decides its value: the command
\* line when the option is given on it, else the project config file when its
\* section has the key, else the RunState when the key is mapped to a field
\* the RunState has, else the built-in default.
C1_PrecedenceLaw ==
    pc = "resolved" =>
        \A k \in DOMAIN cmd_config :
            LET y == get_yaml_config(yaml_file, cmd)
                l == get_last_info(last_info)
            IN cmd_config[k] =
                 IF k \in DOMAIN argv THEN GivenValue(k)
                 ELSE IF k \in Keys(y) THEN Get(y, k)
                 ELSE IF LastHas(l, k) THEN LastValue(l, k)
                 ELSE DefaultOf(cmd, k)

\* C1, the value options only: the law restricted to the options that are not
\* store_true flags (it holds of the code; recorded to delimit the defect)
C1_PrecedenceLawValueOptions ==
    pc = "resolved" =>
        \A k \in (DOMAIN cmd_config) \ StoreTrue(cmd) :
            LET y == get_yaml_config(yaml_file, cmd)
                l == get_last_info(last_info)
            IN cmd_config[k] =
                 IF k \in DOMAIN argv THEN GivenValue(k)
                 ELSE IF k \in Keys(y) THEN Get(y, k)
                 ELSE IF LastHas(l, k) THEN LastValue(l, k)
                 ELSE DefaultOf(cmd, k)

\* C2: a command-line value that is not None wins over the three other layers,
\* falsy values (0, the empty string, False) included.
C2_InvocationWins ==
    pc = "resolved" =>
        \A k \in DOMAIN args : args[k] # None => cmd_config[k] = args[k]

\* C2 witness: jobs --last 0 given while the project config file sets last
C2_Witness ==
    /\ pc = "resolved"
    /\ cmd = "jobs"
    /\ "last" \in DOMAIN argv /\ argv["last"] = Num(0)
    /\ "last" \in Keys(get_yaml_config(yaml_file, cmd))
    /\ cmd_config["last"] = Num(0)

\* tail is resolved with no layer setting last: not on the command line, not
\* in the tail section of the project config file, not in the RunState
TailLastUnset ==
    /\ pc = "resolved" /\ cmd = "tail"
    /\ "last" \notin DOMAIN argv
    /\ "last" \notin Keys(get_yaml_config(yaml_file, cmd))
    /\ ~LastHas(get_last_info(last_info), "last")

\* C20 (default tail count): when tail is invoked without -l/--last and neither
\* the RunState nor the project config file sets last, the resolved tail count
\* is 20, as the help text of the option states.
C20_DefaultTailCount ==
    TailLastUnset => LastIsInt(cmd_config["last"]) /\ tail_lines = 20

\* C20 as the code has it: the resolved last is 'all', the tail count 0, the
\* value that stands for every line of the log
C20_DefaultTailAll ==
    TailLastUnset => cmd_config["last"] = Str("all") /\ tail_lines = 0

----------------------------------------------------------------------------
(* Claims about the commands and the log-stream controller (checked under     *)
(* Spec)                                                                      *)

\* the RunState holds pspace_info[k]
Persisted(k) == LastHas(get_last_info(last_info), k)
PersistedValue(k) == LastValue(get_last_info(last_info), k)

\* the step is the log fetch of print_last_log_lines
FirstFetchStep == pc = "pl_fetch" /\ pc' # "pl_fetch"

\* max(0, T - n) when the RunState is about job j and holds T, else 0
ResumeOffset(j, n) ==
    IF Persisted("last_job_id") /\ PersistedValue("last_job_id") = j
       /\ Persisted("total_log_lines") /\ PersistedValue("total_log_lines") # None
    THEN Max(0, PersistedValue("total_log_lines")[2] - n)
    ELSE 0

\* the tail section of the project config file sets neither carried-over key
NoCarriedKeyInYaml ==
    /\ ~Has(get_yaml_config(yaml_file, "tail"), "total_log_lines")
    /\ ~Has(get_yaml_config(yaml_file, "tail"), "last_job_id")

\* C3: resume offset. The first log fetch of a tail of job j with tail count
\* n > 0 starts at max(0, T - n) when the RunState holds last_job_id = j and
\* total_log_lines = T, and at 0 when the RunState is about another job or
\* holds no total_log_lines.
C3_ResumeOffset ==
    [][(FirstFetchStep /\ tail_lines > 0) =>
          /\ fetch'.reqs[1] = ResumeOffset(job_id, tail_lines)
          /\ obs'.first_offset = fetch'.reqs[1]]_vars

\* C3 amended: the same, for the working contexts whose project config file
\* sets neither total_log_lines nor last_job_id in its tail section (the file
\* is a layer above the RunState for these two keys as for every other).
C3_ResumeOffsetNoYamlOverride ==
    [][(FirstFetchStep /\ tail_lines > 0 /\ NoCarriedKeyInYaml) =>
          /\ fetch'.reqs[1] = ResumeOffset(job_id, tail_lines)
          /\ obs'.first_offset = fetch'.reqs[1]]_vars

\* C3 witness: a tail of j2 with tail count 1 has fetched from offset 1, the
\* RunState having held total_log_lines = 2 for j2
C3_Witness ==
    /\ pc = "done" /\ cmd = "tail"
    /\ NoCarriedKeyInYaml
    /\ tail_lines = 1
    /\ job_id = Str("j2")
    /\ obs.first_offset = 1
    /\ fetch.reqs[1] = 1

\* C4: offset bookkeeping. After a tail of job j that ended without a remote
\* error where a project config file exists, the RunState holds last_job_id = j
\* and total_log_lines = the offset just past the last line the run fetched,
\* the lines fetched while following included.
C4_OffsetBookkeeping ==
    (/\ pc = "done" /\ cmd = "tail"
     /\ job_info # None /\ ~IsError(job_info)
     /\ get_yaml_cwd(yaml_file) # None) =>
        /\ Persisted("last_job_id") /\ PersistedValue("last_job_id") = job_id
        /\ Persisted("total_log_lines")
        /\ obs.fetches > 0 =>
              PersistedValue("total_log_lines") = Num(fetch.reqs[1] + Len(fetch.msgs))

\* C4 without the lines fetched while following: total_log_lines is the offset
\* just past the last line of the first fetch (it holds of the code)
C4_OffsetBookkeepingFirstFetch ==
    (/\ pc = "done" /\ cmd = "tail"
     /\ job_info # None /\ ~IsError(job_info)
     /\ get_yaml_cwd(yaml_file) # None) =>
        /\ Persisted("last_job_id") /\ PersistedValue("last_job_id") = job_id
        /\ Persisted("total_log_lines")
        /\ PersistedValue("total_log_lines") = total_log_lines

\* the step is a log fetch of a tail in follow mode
FollowFetchStep ==
    /\ cmd = "tail"
    /\ pc \in {"pl_fetch", "fl_fetch"} /\ pc' # pc
    /\ follow

\* C5: sentinel termination. In follow mode, a log fetch (the first one or a
\* later poll) that returns a non-empty batch ending with PSEOF ends the
\* controller in that step, with no further sleep or fetch, whatever the state
\* of the job.
C5_SentinelTermination ==
    [][(/\ FollowFetchStep
        /\ Len(fetch'.msgs) > 0
        /\ fetch'.msgs[Len(fetch'.msgs)] = PSEOF) =>
          /\ pc' = "done"
          /\ obs'.sleeps = obs.sleeps
          /\ pc = "fl_fetch" => obs'.ended = "sentinel"]_vars

\* C5 witness: follow_log ended on the sentinel while the job was Running
C5_Witness ==
    /\ pc = "done" /\ cmd = "tail"
    /\ obs.ended = "sentinel"
    /\ obs.sleeps >= 1
    /\ JobState(jobs[job_id[2]]) = "Running"

\* the step is the state poll of follow_log
FollowPollStep == pc = "fl_show" /\ pc' # "fl_show"

\* the job the tail is about is done for more than DEADMAN_SECS
DoneLongAgo ==
    /\ JobState(jobs[job_id[2]]) \in DoneStates
    /\ now - JobFinished(jobs[job_id[2]])[2] > DEADMAN_SECS

\* C6: dead-man timeout. A state poll of follow_log that finds the job done
\* for more than 20 seconds stops the loop at that poll (the sentinel not
\* having been the last line); the loop never stops that way while the job is
\* not done or 20 seconds or fewer have passed since it finished.
C6_DeadManTimeout ==
    [][FollowPollStep =>
          /\ DoneLongAgo =>
                /\ last_log_line # PSEOF
                /\ pc' = "done" /\ obs'.ended = "timeout"
                /\ obs'.sleeps = obs.sleeps /\ obs'.fetches = obs.fetches
          /\ ~DoneLongAgo => pc' # "done" /\ obs'.ended = "no"]_vars

\* C6 witness: follow_log ended by the timeout
C6_Witness ==
    /\ pc = "done" /\ cmd = "tail"
    /\ obs.ended = "timeout"
    /\ last_log_line # PSEOF

\* the step ends a status, tail or create whose remote lookup (the show of
\* status and of print_last_log_lines, the create) answered with an error record
ErrorReturnStep ==
    /\ pc # "done" /\ pc' = "done"
    /\ cmd' \in {"status", "tail", "create"}
    /\ job_info' # None /\ IsError(job_info')

\* C8: error short-circuit. When the remote lookup of status, tail or create
\* answers with an error record, the command has fetched no log and has not
\* slept, prints that record and leaves the RunState as it was before the
\* command.
C8_ErrorShortCircuit ==
    [][/\ ErrorReturnStep =>
            /\ obs'.fetches = 0 /\ obs'.sleeps = 0 /\ fetch' = NoFetch
            /\ out'[Len(out')] = <<"ERROR", Get(Get(job_info', "error"), "status"),
                                   Get(Get(job_info', "error"), "message")>>
            /\ job_info' \in {ErrorRecord(404, "Not found"), ErrorRecord(400, "Bad request")}
            /\ last_info' = last_info
       /\ pc' = "pl_show" => last_info' = last_info]_vars

\* C8 witness: a tail of the unknown job j1 ended on the error record while a
\* project config file exists
C8_Witness ==
    /\ pc = "done" /\ cmd = "tail"
    /\ job_info = ErrorRecord(404, "Not found")
    /\ get_yaml_cwd(yaml_file) # None
    /\ out = <<<<"ERROR", Num(404), Str("Not found")>>>>

\* C10: marker scoping. A step taken where no project config file is found
\* leaves the RunState as it is, whatever the command.
C10_NoMarkerNoWrite ==
    [][get_yaml_cwd(yaml_file) = None => last_info' = last_info]_vars

\* C10 witness: a tail that fetched log lines has ended where there is no
\* project config file, and there is no RunState
C10_Witness ==
    /\ pc = "done" /\ cmd = "tail"
    /\ obs.fetches >= 1
    /\ get_yaml_cwd(yaml_file) = None
    /\ ~Exists(last_info)

\* the step writes the RunState
WriteStep == obs'.saves > obs.saves

\* C11: RunState write discipline. The RunState changes only in a step that
\* writes it; such a step belongs to create, tail or status, is the first write
\* of the invocation and ends the command, so that no remote call follows it;
\* jobs, stop, getart and newyaml leave the RunState as it is.
C11_WriteDiscipline ==
    [][/\ last_info' # last_info => WriteStep
       /\ WriteStep =>
            /\ cmd' \in {"create", "tail", "status"}
            /\ obs'.saves = 1
            /\ pc # "done" /\ pc' = "done"
       /\ cmd' \in {"jobs", "stop", "getart", "newyaml"} => last_info' = last_info]_vars

\* C11 witness: a create has written the RunState, once
C11_Witness ==
    /\ pc = "done" /\ cmd = "create"
    /\ obs.saves = 1 /\ obs.others = 1
    /\ Exists(last_info)

\* the invocation has ended with the report that the job id cannot be
\* determined: a normal return, no remote call made, no RunState written
MissingIdentityReported ==
    /\ pc = "done"
    /\ out = <<<<"text", "Cannot determine job id.">>>>
    /\ obs.shows = 0 /\ obs.fetches = 0 /\ obs.others = 0 /\ obs.saves = 0

\* C12: MissingIdentity. A tail, status, stop or getart whose job_id resolves
\* to None reports that the job id cannot be determined and returns normally,
\* before any remote call and without writing the RunState.
C12_MissingIdentity ==
    (/\ Ended
     /\ cmd \in {"tail", "status", "stop", "getart"}
     /\ cmd_config["job_id"] = None) => MissingIdentityReported

\* C12 for tail and status only (it holds of the code)
C12_MissingIdentityTailStatus ==
    (/\ Ended
     /\ cmd \in {"tail", "status"}
     /\ cmd_config["job_id"] = None) => MissingIdentityReported

\* the RunState has exactly the sections job_info and pspace_info, both
\* mappings, and no field of job_info is None
TwoSectionsNoNull ==
    /\ IsDict(Content(last_info))
    /\ Keys(Content(last_info)) = {"job_info", "pspace_info"}
    /\ IsDict(Get(Content(last_info), "job_info"))
    /\ IsDict(Get(Content(last_info), "pspace_info"))
    /\ \A k \in Keys(Get(Content(last_info), "job_info")) :
          Get(Get(Content(last_info), "job_info"), k) # None

\* the fields of pspace_info
InfoKeys == Keys(Get(Content(last_info), "pspace_info"))

\* C13: RunState shape. Whenever a RunState exists it has the sections
\* job_info and pspace_info, job_info has no None field, and pspace_info has
\* at least last_job_id and total_log_lines.
C13_RunStateShape ==
    Exists(last_info) =>
        /\ TwoSectionsNoNull
        /\ {"last_job_id", "total_log_lines"} \subseteq InfoKeys

\* C13 amended: whenever a RunState exists it has the sections job_info and
\* pspace_info, job_info has no None field, and pspace_info has info_updated;
\* it has last_job_id and total_log_lines, both not None, when the RunState
\* was written by tail, and neither of them when it was written by status or
\* create.
C13_RunStateShapeByWriter ==
    Exists(last_info) =>
        /\ TwoSectionsNoNull
        /\ "info_updated" \in InfoKeys
        /\ \/ InfoKeys = {"info_updated"}
           \/ /\ InfoKeys = {"info_updated", "last_job_id", "total_log_lines"}
              /\ IsStr(PersistedValue("last_job_id"))
              /\ IsNum(PersistedValue("total_log_lines"))
        /\ (pc = "done" /\ obs.saves = 1 /\ cmd = "tail") => "last_job_id" \in InfoKeys
        /\ (pc = "done" /\ obs.saves = 1 /\ cmd \in {"status", "create"}) =>
              InfoKeys = {"info_updated"}

\* C13 witness: status of a job that has not finished has written a RunState
\* without dtFinished in job_info and without last_job_id in pspace_info
C13_Witness ==
    /\ pc = "done" /\ cmd = "status" /\ obs.saves = 1
    /\ Get(job_info, "dtFinished") = None
    /\ Exists(last_info)
    /\ "dtFinished" \notin Keys(Get(Content(last_info), "job_info"))
    /\ "state" \in Keys(Get(Content(last_info), "job_info"))
    /\ InfoKeys = {"info_updated"}

\* the step is a show() of follow_job_state: its first one, or a poll of its loop
PreStartShowStep == cmd = "tail" /\ pc \in {"fjs_show", "fjs_poll"} /\ pc' # pc

\* the step is a sleep of follow_job_state
PreStartSleepStep == cmd = "tail" /\ pc = "fjs_sleep" /\ pc' # pc

\* the state of the job the tail is about, as the service holds it
RemoteState == JobState(jobs[job_id[2]])

\* what C14 says of the steps other than the show() calls: a sleep lasts 5
\* seconds and makes no remote call; a show() that finds Pending or
\* Provisioned is followed by a sleep; a poll of the loop prints the state
\* exactly when it differs from the state polled before; the first log fetch
\* comes after a show() that found a started state, and is the first fetch
PreStartRest ==
    /\ PreStartSleepStep =>
          /\ now' = now + 5
          /\ obs'.shows = obs.shows /\ obs'.fetches = 0 /\ out' = out
    /\ PreStartShowStep =>
          /\ obs'.shows = obs.shows + 1 /\ obs'.fetches = 0
          /\ RemoteState \in NotStartedStates => pc' = "fjs_sleep"
          /\ RemoteState \notin NotStartedStates => pc' = "pl_fetch"
    /\ (cmd = "tail" /\ pc = "fjs_poll" /\ pc' # pc) =>
          out' = IF RemoteState # Get(job_info, "state")[2]
                 THEN Append(out, <<"State", Str(RemoteState)>>)
                 ELSE out
    /\ FirstFetchStep =>
          /\ obs.fetches = 0
          /\ Get(job_info, "state")[2] \notin NotStartedStates

\* C14: pre-start polling. In follow mode, while the polled state is Pending
\* or Provisioned the controller makes only show() calls, each show() after the
\* first of the invocation coming after a sleep of 5 seconds since the show()
\* before it; the state line is printed again exactly when two consecutive
\* polled states differ; no log is fetched before a show() has found a started
\* state.
C14_PreStartPolling ==
    [][/\ PreStartShowStep => obs.sleeps = obs.shows
       /\ PreStartRest]_vars

\* C14 amended: the same, except that the first show() of follow_job_state
\* comes at once after the show() of print_last_log_lines, with no sleep
\* between the two; every later show() comes after one sleep of 5 seconds since
\* the show() before it.
C14_PreStartPollingAfterFirstPair ==
    [][/\ (PreStartShowStep /\ pc = "fjs_show") => obs.shows = 1 /\ obs.sleeps = 0
       /\ (PreStartShowStep /\ pc = "fjs_poll") => obs.sleeps = obs.shows - 1
       /\ PreStartRest]_vars

\* C14 witness: the job started after two sleeps; of the three states polled
\* by follow_job_state one differed from the state before it
C14_Witness ==
    /\ cmd = "tail" /\ pc = "pl_fetch"
    /\ obs.sleeps = 2 /\ obs.shows = 4 /\ obs.fetches = 0
    /\ Len(out) = 3
    /\ out[2] = <<"State", Str("Pending")>>
    /\ out[3] = <<"State", Str("Running")>>

\* the last n elements of seq in order, all of them when n is 0 or above Len(seq)
Trailing(seq, n) ==
    IF n = 0 \/ n >= Len(seq) THEN seq
    ELSE [i \in 1..n |-> seq[Len(seq) - n + i]]

\* a tail without follow of a started job has ended
SnapshotEnded ==
    /\ pc = "done" /\ cmd = "tail"
    /\ cmd_config["job_id"] # None
    /\ ~follow
    /\ ~IsError(job_info)
    /\ Get(job_info, "state")[2] \notin NotStartedStates

\* C15: snapshot mode. A tail without follow of a started job makes one
\* show() and one paged log fetch from line_start, does not sleep or wait for
\* the sentinel, fetches every line of the log from line_start on, and prints
\* the last tail_lines of the fetched lines in order, all of them when
\* tail_lines is 0 or exceeds their number.
C15_SnapshotMode ==
    SnapshotEnded =>
        /\ obs.shows = 1 /\ obs.fetches = 1 /\ obs.sleeps = 0 /\ obs.ended = "no"
        /\ fetch.reqs[1] = line_start
        /\ fetch.msgs = SubSeq(RemoteLog(jobs, job_id), line_start + 1,
                               Len(RemoteLog(jobs, job_id)))
        /\ out = <<<<"Job", job_id>>, <<"State", Get(job_info, "state")>>>>
                 \o [i \in 1..Len(Trailing(fetch.msgs, tail_lines)) |->
                       <<"log", Trailing(fetch.msgs, tail_lines)[i]>>]

\* C15 witness: a tail with tail count 1 fetched two lines, the last of them
\* not the sentinel, and printed the second only
C15_Witness ==
    /\ SnapshotEnded
    /\ tail_lines = 1
    /\ fetch.msgs = <<"l1", "l2">>
    /\ out[Len(out)] = <<"log", "l2">>
    /\ Len(out) = 3

\* the requests of one get_log_lines call follow each other: each starts just
\* past the last line of the page before it
ChainedRequests(f) ==
    \A i \in 1..(Len(f.reqs) - 1) : f.reqs[i + 1] = f.reqs[i] + f.pages[i]

\* the lines of the log from offset ls on, n of them
LogSlice(log, ls, n) == [i \in 1..n |-> log[ls + i]]

\* C23 (follow-mode offset continuity): in a tail in follow mode every log
\* fetch starts at line_start, its requests follow each other, its batch is the
\* slice of the job's log from line_start on, and line_start moves just past
\* the batch when the tail goes on; line_start does not change between two
\* fetches. So the batches of a run are, one after the other, a contiguous
\* slice of the log from the first line_start, no line twice and none skipped.
\* The batch of a follow poll is printed whole and in order in the step that
\* fetched it, before any further sleep.
C23_OffsetContinuity ==
    [][/\ FollowFetchStep =>
             /\ fetch'.reqs[1] = line_start
             /\ ChainedRequests(fetch')
             /\ line_start + Len(fetch'.msgs) <= Max(line_start, Len(RemoteLog(jobs, job_id)))
             /\ fetch'.msgs = LogSlice(RemoteLog(jobs, job_id), line_start, Len(fetch'.msgs))
             /\ pc' # "done" => line_start' = line_start + Len(fetch'.msgs)
       /\ (cmd = "tail" /\ pc \in {"fl_show", "fl_sleep"}) => line_start' = line_start
       /\ (pc = "fl_fetch" /\ pc' # pc) =>
             /\ out' = out \o LogOut(fetch'.msgs)
             /\ obs'.sleeps = obs.sleeps]_vars

\* C23 witness: a tail in follow mode whose first fetch got one line and whose
\* follow poll, made from offset 1, got the next one
C23_Witness ==
    /\ cmd = "tail" /\ follow
    /\ pc \in {"fl_show", "done"}
    /\ obs.first_offset = 0 /\ obs.fetches >= 2
    /\ fetch.reqs[1] = 1
    /\ Len(fetch.msgs) >= 1
    /\ line_start = 1 + Len(fetch.msgs)
    /\ out[Len(out)] = <<"log", RemoteLog(jobs, job_id)[line_start]>>

\* a record in state s, as far as the state predicates read it
StateRecord(s) == Dict([x \in {"state"} |-> Str(s)])

\* the state predicates on the record ji in state s are as the claim has them
PartitionAt(ji, s) ==
    /\ job_not_started(ji) <=> s \in {"Pending", "Provisioned"}
    /\ job_started(ji) <=> ~job_not_started(ji)
    /\ job_done(ji) <=> s \in {"Stopped", "Cancelled", "Failed", "Error"}
    /\ job_done(ji) => job_started(ji)
    /\ ~(job_not_started(ji) /\ job_done(ji))
    /\ (job_started(ji) /\ ~job_done(ji)) <=> s = "Running"

----------------------------------------------------------------------------
(* Claims about termination of follow mode (checked under SpecLive)          *)

\* the step is a show() of the wait-for-start loop or of the log-follow loop
LoopPollStep ==
    cmd = "tail" /\ pc \in {"fjs_show", "fjs_poll", "fl_show"} /\ pc' # pc

\* C16: bounded follow. A tail in follow mode of a job that reaches a done
\* state ends: the wait-for-start loop is left at the first poll that finds
\* the job started or done, the log-follow loop at the latest at the first
\* poll taken more than 20 seconds after the job finished.
C16_BoundedFollow ==
    /\ (cmd = "tail" /\ pc = "pl_show") ~> Ended
    /\ [][(LoopPollStep /\ DoneLongAgo) =>
             \/ pc = "fl_show" /\ pc' = "done"
             \/ pc # "fl_show" /\ pc' = "pl_fetch"]_vars

\* C16 witness: the tail ended by the timeout at the latest time possible, the
\* job having finished at LiveDeadline
C16_Witness ==
    /\ cmd = "tail" /\ pc = "done"
    /\ obs.ended = "timeout"
    /\ JobFinished(jobs["j1"]) = Num(LiveDeadline)
    /\ now = LiveDeadline + DEADMAN_SECS + SLEEP_SECS
    /\ obs.sleeps >= 5

----------------------------------------------------------------------------
(* Claims about the write of the RunState file (checked under SpecSave)     *)

\* C17 (interrupt safety of the RunState file): the save is atomic, every step
\* of an invocation, whether or not an interrupt follows it, either leaves the
\* RunState file as it was or leaves in it the complete new content, the one
\* save_last_info writes for the job_info of the invocation.
C17_AtomicSave ==
    [][last_info' # last_info =>
          last_info' = save_last_info(yaml_file, last_info, job_info, <<>>, now)]_vars

\* C17, the state an interrupt leaves behind: an invocation ended by the
\* interrupt and the RunState file is neither absent nor a complete RunState
C17_InterruptedTruncated ==
    ~(Interrupted /\ Exists(last_info) /\ ~TwoSectionsNoNull)

----------------------------------------------------------------------------
(* Claims about the exit status (checked under SpecInt)                      *)

\* C18 (exit status): an invocation ended by the interrupt exits with status
\* 130 and has written nothing to the RunState file; every invocation that
\* ended without the interrupt exits with status 0, whatever it ended with.
C18_ExitStatus ==
    /\ Interrupted => ExitStatus = 130 /\ obs.saves = 0
    /\ Ended => ExitStatus = 0

\* C18 for the interrupt and for the invocations whose handler returns: the
\* step of the interrupt leaves the RunState file as it is and, in tail, the
\* lines printed as they are; the status is 130 after it with nothing written
\* by the invocation, and 0 after a handler that returned, which includes the
\* ones that printed the missing job id or the error record of the service.
C18_ExitStatusReturned ==
    /\ [](Interrupted => ExitStatus = 130 /\ obs.saves = 0)
    /\ [](pc = "done" => ExitStatus = 0)
    /\ [][pc' = "interrupted" =>
             /\ last_info' = last_info
             /\ pc \in TailWaitPoints => out' = out]_vars

----------------------------------------------------------------------------
(* Claims about the job a command defaults to (checked under SpecLast)       *)

\* the job the RunState is about, None without one
RunStateJob ==
    IF LastHas(get_last_info(last_info), "job_id")
    THEN LastValue(get_last_info(last_info), "job_id")
    ELSE None

\* a create, status or tail has completed on a job without a remote error
CompletedOnJob ==
    /\ pc = "done" /\ cmd \in {"create", "status", "tail"}
    /\ job_info # None /\ ~IsError(job_info)

\* the step starts a tail, status, stop or getart with no job id on the command
\* line, the project config file having no job_id for the command
ResolveWithoutJobId ==
    /\ pc = "idle" /\ pc' # "idle"
    /\ cmd' \in {"tail", "status", "stop", "getart"}
    /\ "job_id" \notin DOMAIN argv'
    /\ ~Has(get_yaml_config(yaml_file, cmd'), "job_id")

\* C21 (defaulting to the last job): where a project config file exists, a
\* create, status or tail that completed on job J without a remote error leaves
\* the RunState about J; the RunState changes in no other step; and a tail,
\* status, stop or getart started without a job id resolves job_id to the job
\* the RunState is about. Hence after any sequence of commands the command
\* resolves the job of the most recent successful create, status or tail.
C21_DefaultLastJob ==
    /\ []((CompletedOnJob /\ Exists(yaml_file)) => RunStateJob = Get(job_info, "id"))
    /\ [][/\ last_info' # last_info => CompletedOnJob'
          /\ (ResolveWithoutJobId /\ Exists(yaml_file)) =>
                cmd_config'["job_id"] = RunStateJob]_vars

\* C21 for the project config files that parse to a document (not None)
C21_DefaultLastJobParsedFile ==
    /\ []((CompletedOnJob /\ get_yaml_cwd(yaml_file) # None) =>
             RunStateJob = Get(job_info, "id"))
    /\ [][/\ last_info' # last_info => CompletedOnJob'
          /\ (ResolveWithoutJobId /\ get_yaml_cwd(yaml_file) # None) =>
                cmd_config'["job_id"] = RunStateJob]_vars

----------------------------------------------------------------------------
(* Claims about records that lack fields (checked under SpecMal)             *)

\* the step is a poll of the wait for the start, resp. of the log follow
WaitPollStep == pc \in {"fjs_show", "fjs_poll"} /\ pc' # pc
FollowLogPollStep == pc = "fl_show" /\ pc' # pc

\* the record lacks state (an error record or any other), resp. is the record
\* of a done job without a finish timestamp
LacksState(ji) == ~HasState(ji)
DoneWithoutFinish(ji) == HasState(ji) /\ job_done(ji) /\ ~HasFinished(ji)

\* the invocation fails at the step and has not written the RunState
FailsUnwritten == pc' = "crashed" /\ last_info' = last_info /\ obs'.saves = 0

\* C22 (malformed record mid-poll): a poll of the wait for the start or of the
\* log follow that gets an error record, a record without state, or the record
\* of a done job without a finish timestamp ends the invocation with a failure:
\* no further poll is made with the record, the command does not return
\* normally and the RunState is not written.
C22_MalformedNotRecovered ==
    [][((WaitPollStep \/ FollowLogPollStep)
        /\ (LacksState(job_info') \/ DoneWithoutFinish(job_info'))) =>
          FailsUnwritten]_vars

\* C22 amended: the same for a record without state in either loop, and for
\* the record of a done job without a finish timestamp in the log follow; the
\* wait for the start does not read the finish timestamp.
C22_MalformedNotRecoveredWhereRead ==
    [][(\/ (WaitPollStep \/ FollowLogPollStep) /\ LacksState(job_info')
        \/ FollowLogPollStep /\ DoneWithoutFinish(job_info')) =>
          FailsUnwritten]_vars

\* C22 witness: the log follow has polled after a sleep, got the record of a
\* done job without a finish timestamp, and the tail failed with no RunState
C22_Witness ==
    /\ cmd = "tail" /\ pc = "crashed"
    /\ obs.sleeps >= 1 /\ obs.fetches >= 2
    /\ DoneWithoutFinish(job_info)
    /\ ~Exists(last_info)

\* C22 as the code has it in the wait for the start: the tail returned
\* normally and wrote the RunState with the record of a done job that has no
\* finish timestamp
C22_WaitRecovered ==
    ~(/\ cmd = "tail" /\ pc = "done"
      /\ DoneWithoutFinish(job_info)
      /\ obs.saves = 1 /\ Exists(last_info))

----------------------------------------------------------------------------
(* Claims about get_log_lines (checked under SpecPage)                       *)

\* C7: paging completeness. For a log that does not change during the call
\* and a start offset within it, get_log_lines requests strictly advancing
\* offsets beginning at the start offset, every page but the last is non-empty
\* and within the cap, the last page is the first empty one, and the result is
\* exactly the messages of the lines from the start offset to the end, in order.
C7_PagingComplete ==
    (pc = "fetched" /\ line_start <= Len(JobLog(jobs["j1"]))) =>
        LET log == JobLog(jobs["j1"])
            n == Len(fetch.reqs)
        IN /\ fetch.msgs = SubSeq(log, line_start + 1, Len(log))
           /\ n >= 1 /\ Len(fetch.pages) = n
           /\ fetch.reqs[1] = line_start
           /\ \A i \in 1..(n - 1) : fetch.reqs[i] < fetch.reqs[i + 1]
           /\ \A i \in 1..(n - 1) : fetch.pages[i] >= 1 /\ fetch.pages[i] <= page_cap
           /\ fetch.pages[n] = 0

\* C7 witness: a fetch that needed three non-empty pages
C7_Witness ==
    /\ pc = "fetched"
    /\ page_cap = 1
    /\ line_start = 1
    /\ Len(JobLog(jobs["j1"])) = 4
    /\ fetch.msgs = <<"l2", "l3", "l4">>
    /\ fetch.reqs = <<1, 2, 3, 4>>

----------------------------------------------------------------------------
(* Claims about command_jobs (checked under SpecJobs)                        *)

\* prefix is a prefix of x when letter case is ignored
ci_startswith(x, prefix) ==
    /\ Len(prefix) <= Len(x)
    /\ \A i \in 1..Len(prefix) : lower(x[i]) = lower(prefix[i])

CiMatching(st) == {i \in 1..Len(VALID_JOB_STATES) : ci_startswith(VALID_JOB_STATES[i], st)}

\* C9: state filter matching. A non-empty filter that is, letter case ignored,
\* a prefix of some state name makes the jobs command list with the first such
\* state of VALID_JOB_STATES as its filter.
C9_StateFilterMatch ==
    (/\ Ended /\ cmd = "jobs"
     /\ "state" \in DOMAIN argv
     /\ Len(argv["state"][2]) > 0
     /\ CiMatching(argv["state"][2]) # {}) =>
        /\ pc = "done"
        /\ out[1] = <<"filter",
                      Str(StateNames[CHOOSE i \in CiMatching(argv["state"][2]) :
                                        \A j \in CiMatching(argv["state"][2]) : i <= j])>>

\* C9, first letter only: the same for the filters whose characters after the
\* first are in the case of the state name (it holds of the code)
C9_StateFilterMatchFirstLetter ==
    (/\ Ended /\ cmd = "jobs"
     /\ "state" \in DOMAIN argv
     /\ Len(argv["state"][2]) > 0
     /\ Matching(<<upper(argv["state"][2][1])>> \o Tail(argv["state"][2])) # {}) =>
        /\ pc = "done"
        /\ out[1] = <<"filter",
                      Str(StateNames[CHOOSE i \in CiMatching(argv["state"][2]) :
                                        \A j \in CiMatching(argv["state"][2]) : i <= j])>>

\* the jobs the jobs command displayed, and the list the remote list call
\* returned to it (the first line of out is the filter of the call)
JobsShown == [i \in 1..(Len(out) - 1) |-> out[i + 1][2]]
JobsReturned == jobs_list(jobs, out[1][2])

\* the final n entries of seq in their order, for 0 <= n <= Len(seq)
FinalEntries(seq, n) == [i \in 1..n |-> seq[Len(seq) - n + i]]

\* C19 (last-N truncation in the jobs command): for every last count N >= 0
\* and every list of length L returned by the remote list call, the jobs
\* displayed are the final min(N, L) entries of the list in their order; with
\* last unset the whole list is displayed.
C19_LastTruncation ==
    (cmd = "jobs" /\ pc = "done") =>
        IF cmd_config["last"] = None
        THEN JobsShown = JobsReturned
        ELSE JobsShown = FinalEntries(JobsReturned,
                                      Min(cmd_config["last"][2], Len(JobsReturned)))

\* C19 for the last counts N >= 1, and for last unset
C19_LastTruncationPositive ==
    (cmd = "jobs" /\ pc = "done") =>
        IF cmd_config["last"] = None
        THEN JobsShown = JobsReturned
        ELSE cmd_config["last"][2] >= 1 =>
                JobsShown = FinalEntries(JobsReturned,
                                         Min(cmd_config["last"][2], Len(JobsReturned)))

\* C19 for last 0 as the code has it: a non-empty list displayed whole
C19_LastZeroShowsAll ==
    ~(/\ cmd = "jobs" /\ pc = "done"
      /\ cmd_config["last"] = Num(0)
      /\ Len(JobsReturned) = 2
      /\ JobsShown = JobsReturned)

----------------------------------------------------------------------------
(* Claims about resuming from the RunState (checked under SpecResume)        *)

\* a snapshot tail with a tail count above 0 has ended on a started job
ResumedSnapshotEnded ==
    /\ cmd = "tail" /\ pc = "done"
    /\ ~follow /\ tail_lines > 0
    /\ job_info # None /\ ~IsError(job_info) /\ job_started(job_info)

====
